---- MODULE Spec2Model ----
(***************************************************************************)
(* Verification model of the thesis generation pipeline of project e5:     *)
(*   - USTCContentParser.parse_text  (src/projects/e5/custom/parser.py)    *)
(*   - USTCFormatter.generate        (src/projects/e5/custom/formatter.py) *)
(*                                                                         *)
(* Text is modelled character by character on TLA+ strings.  The module    *)
(* language admits ASCII only, so each CJK character the code tests for is *)
(* written as one reserved ASCII character that occurs nowhere else in the *)
(* inputs (legend below); every other character stands for itself.        *)
(***************************************************************************)
EXTENDS Integers, Sequences, FiniteSets, TLC

(* ------------------------------------------------------------------ *)
(* Legend of the CJK characters used by the code                       *)
(* ------------------------------------------------------------------ *)
Cjk ==
    [Di         |-> "@",     \* U+7B2C  (ordinal prefix of a chapter heading)
     Zhang      |-> "$",     \* U+7AE0  (chapter)
     Yi         |-> "!",     \* U+4E00  one
     Er         |-> "?",     \* U+4E8C  two
     San        |-> "%",     \* U+4E09  three
     Si         |-> "&",     \* U+56DB  four
     Wu         |-> "*",     \* U+4E94  five
     Liu        |-> "=",     \* U+516D  six
     Qi         |-> "<",     \* U+4E03  seven
     Ba         |-> ">",     \* U+516B  eight
     Jiu        |-> "~",     \* U+4E5D  nine
     Shi        |-> "+",     \* U+5341  ten
     Ling       |-> "O",     \* U+96F6  zero
     GuanJianCi |-> "{,}",   \* U+5173 U+952E U+8BCD  (the keyword label)
     FwColon    |-> "^",     \* U+FF1A  full-width colon
     FwSemi     |-> "'"]     \* U+FF1B  full-width semicolon

WordJoiner == "#"   \* U+2060  (WORD_JOINER of formatter.py)

NoneV == "<None>"   \* Python's None

(* ------------------------------------------------------------------ *)
(* Python str primitives                                               *)
(* ------------------------------------------------------------------ *)
Char(s, k) == IF 1 <= k /\ k <= Len(s) THEN SubSeq(s, k, k) ELSE ""
From(s, k) == SubSeq(s, k, Len(s))

StartsWith(s, p) == Len(s) >= Len(p) /\ SubSeq(s, 1, Len(p)) = p
EndsWith(s, p) == Len(s) >= Len(p) /\ SubSeq(s, Len(s) - Len(p) + 1, Len(s)) = p

Digits == {"0", "1", "2", "3", "4", "5", "6", "7", "8", "9"}
Spaces == {" ", "\t"}

RECURSIVE LStrip(_)
LStrip(s) == IF s # "" /\ Char(s, 1) \in Spaces THEN LStrip(From(s, 2)) ELSE s

RECURSIVE RStrip(_)
RStrip(s) ==
    IF s # "" /\ Char(s, Len(s)) \in Spaces THEN RStrip(SubSeq(s, 1, Len(s) - 1)) ELSE s

\* str.strip()
Strip(s) == RStrip(LStrip(s))

RECURSIVE LStripChars(_, _)
LStripChars(s, cs) ==
    IF s # "" /\ Char(s, 1) \in cs THEN LStripChars(From(s, 2), cs) ELSE s

RECURSIVE RStripChars(_, _)
RStripChars(s, cs) ==
    IF s # "" /\ Char(s, Len(s)) \in cs
      THEN RStripChars(SubSeq(s, 1, Len(s) - 1), cs) ELSE s

\* str.strip(chars)
StripChars(s, cs) == RStripChars(LStripChars(s, cs), cs)

Letters == [lower |-> "abcdefghijklmnopqrstuvwxyz", upper |-> "ABCDEFGHIJKLMNOPQRSTUVWXYZ"]

UpperChar(c) ==
    IF \E k \in 1..26 : Char(Letters.lower, k) = c
      THEN Char(Letters.upper, CHOOSE k \in 1..26 : Char(Letters.lower, k) = c)
      ELSE c

LowerChar(c) ==
    IF \E k \in 1..26 : Char(Letters.upper, k) = c
      THEN Char(Letters.lower, CHOOSE k \in 1..26 : Char(Letters.upper, k) = c)
      ELSE c

\* str.upper(), character by character (the string is halved to keep the recursion shallow)
RECURSIVE Upper(_)
Upper(s) ==
    IF Len(s) <= 1 THEN UpperChar(s)
    ELSE LET h == Len(s) \div 2
         IN  Upper(SubSeq(s, 1, h)) \o Upper(SubSeq(s, h + 1, Len(s)))

\* str.lower()
RECURSIVE Lower(_)
Lower(s) ==
    IF Len(s) <= 1 THEN LowerChar(s)
    ELSE LET h == Len(s) \div 2
         IN  Lower(SubSeq(s, 1, h)) \o Lower(SubSeq(s, h + 1, Len(s)))

\* index of the first occurrence of a character of cs in s, 0 when there is none
RECURSIVE FindAny(_, _, _)
FindAny(s, cs, k) ==
    IF k > Len(s) THEN 0
    ELSE IF Char(s, k) \in cs THEN k
    ELSE FindAny(s, cs, k + 1)

\* str.split(sep) / re.split('[..]') on single-character separators
RECURSIVE Split(_, _)
Split(s, cs) ==
    LET k == FindAny(s, cs, 1)
    IN  IF k = 0 THEN <<s>>
        ELSE <<SubSeq(s, 1, k - 1)>> \o Split(From(s, k + 1), cs)

\* str.split(sep, 1)[-1]
AfterFirst(s, cs) ==
    LET k == FindAny(s, cs, 1) IN IF k = 0 THEN s ELSE From(s, k + 1)

\* sep.join(parts)
RECURSIVE Join(_, _)
Join(parts, sep) ==
    IF parts = <<>> THEN ""
    ELSE IF Len(parts) = 1 THEN parts[1]
    ELSE parts[1] \o sep \o Join(Tail(parts), sep)

\* length of the longest prefix of s, from position k, whose characters satisfy the class
RunLen(s, k, cls) ==
    LET stops == {j \in k..Len(s) : Char(s, j) \notin cls}
    IN  IF stops = {} THEN (IF k <= Len(s) THEN Len(s) - k + 1 ELSE 0)
        ELSE (CHOOSE j \in stops : \A m \in stops : j <= m) - k

\* int(s) for a non-empty string of decimal digits
RECURSIVE ToInt(_)
ToInt(s) ==
    IF s = "" THEN 0
    ELSE 10 * ToInt(SubSeq(s, 1, Len(s) - 1))
         + (CHOOSE d \in 0..9 : Char("0123456789", d + 1) = Char(s, Len(s)))

\* int(s) raises ValueError for more than sys.int_info.default_max_str_digits digits
\* (4300 in CPython from 3.11 on)
MaxStrDigits == 4300
IntRaises(s) == Len(s) > MaxStrDigits

\* s repeated n times
RECURSIVE Rep(_, _)
Rep(s, n) ==
    IF n = 0 THEN ""
    ELSE IF n % 2 = 0 THEN LET h == Rep(s, n \div 2) IN h \o h
    ELSE s \o Rep(s, n - 1)

\* str.isdigit()
IsDigitStr(s) == s # "" /\ \A k \in 1..Len(s) : Char(s, k) \in Digits

(* ------------------------------------------------------------------ *)
(* Line patterns of USTCContentParser.parse_text                       *)
(* ------------------------------------------------------------------ *)
CjkNumerals == {Cjk.Yi, Cjk.Er, Cjk.San, Cjk.Si, Cjk.Wu, Cjk.Liu, Cjk.Qi, Cjk.Ba, Cjk.Jiu, Cjk.Shi}

\* the tail  \s+(.+)$  of a heading pattern, tried at position p of s:
\* greedy white space, then at least one more character up to the end
SpaceThenRest(s, p) ==
    LET w == RunLen(s, p, Spaces)
    IN  [ok   |-> w >= 1 /\ (p + w <= Len(s) \/ w >= 2),
         rest |-> IF p + w <= Len(s) THEN From(s, p + w) ELSE Char(s, Len(s))]

NoMatch == [ok |-> FALSE, num |-> "", text |-> ""]

\* re.match(r'^DI[numerals\d]+ZHANG', line)
MatchBodyChapter(line) ==
    LET n == RunLen(line, 2, CjkNumerals \cup Digits)
    IN  /\ StartsWith(line, Cjk.Di)
        /\ n >= 1
        /\ Char(line, 2 + n) = Cjk.Zhang

\* re.match(r'^DI([numerals\d]+)ZHANG\s+(.+)$', line)
Match1(line) ==
    LET n == RunLen(line, 2, CjkNumerals \cup Digits)
        t == SpaceThenRest(line, n + 3)
    IN  IF MatchBodyChapter(line) /\ t.ok
          THEN [ok |-> TRUE, num |-> SubSeq(line, 2, n + 1), text |-> t.rest]
          ELSE NoMatch

\* re.match(r'^(\d+)\s+(.+)$', line)
Match2(line) ==
    LET n == RunLen(line, 1, Digits)
        t == SpaceThenRest(line, n + 1)
    IN  IF n >= 1 /\ t.ok
          THEN [ok |-> TRUE, num |-> SubSeq(line, 1, n), text |-> t.rest]
          ELSE NoMatch

\* re.match(r'^(\d+\.\d+)\s+(.+)$', line)
MatchH2(line) ==
    LET a == RunLen(line, 1, Digits)
        b == RunLen(line, a + 2, Digits)
        t == SpaceThenRest(line, a + b + 2)
    IN  IF a >= 1 /\ Char(line, a + 1) = "." /\ b >= 1 /\ t.ok
          THEN [ok |-> TRUE, num |-> SubSeq(line, 1, a + b + 1), text |-> t.rest]
          ELSE NoMatch

\* re.match(r'^(\d+\.\d+\.\d+)\s+(.+)$', line)
MatchH3(line) ==
    LET a == RunLen(line, 1, Digits)
        b == RunLen(line, a + 2, Digits)
        c == RunLen(line, a + b + 3, Digits)
        t == SpaceThenRest(line, a + b + c + 3)
    IN  IF /\ a >= 1 /\ Char(line, a + 1) = "."
           /\ b >= 1 /\ Char(line, a + b + 2) = "."
           /\ c >= 1 /\ t.ok
          THEN [ok |-> TRUE, num |-> SubSeq(line, 1, a + b + c + 2), text |-> t.rest]
          ELSE NoMatch

\* re.match(r'\[TAG:([\d\-]+)\]', line) for TAG in FIGURE, TABLE, FORMULA:
\* the identifier, or NoneV when the pattern does not match
BlockId(line, open) ==
    LET n == RunLen(line, Len(open) + 1, Digits \cup {"-"})
    IN  IF StartsWith(line, open) /\ n >= 1 /\ Char(line, Len(open) + n + 1) = "]"
          THEN SubSeq(line, Len(open) + 1, Len(open) + n)
          ELSE NoneV

\* re.match(r'^\[\d+\]', line)
MatchBracketNumber(line) ==
    LET n == RunLen(line, 2, Digits)
    IN  StartsWith(line, "[") /\ n >= 1 /\ Char(line, n + 2) = "]"

\* _is_references_header / _is_acknowledgements_header / _is_appendix_header:
\* the ASCII spellings of the header sets (the CJK spellings contain characters
\* that no modelled input line holds), then the comparison after strip(chars)
HeaderStripChars == {"[", "]", "(", ")", ":", Cjk.FwColon}

IsReferencesHeader(line) ==
    \/ Strip(line) \in {"[REFERENCES]", "REFERENCES", "References", "REFERENCES" \o Cjk.FwColon}
    \/ Upper(StripChars(Strip(line), HeaderStripChars)) = "REFERENCES"

IsAcknowledgementsHeader(line) ==
    \/ Strip(line) \in {"[ACKNOWLEDGEMENTS]", "ACKNOWLEDGEMENTS"}
    \/ Upper(StripChars(Strip(line), HeaderStripChars)) = "ACKNOWLEDGEMENTS"

IsAppendixHeader(line) ==
    \/ Strip(line) \in {"[APPENDIX]", "APPENDIX"}
    \/ Upper(StripChars(Strip(line), HeaderStripChars)) = "APPENDIX"

\* _is_new_reference_entry(line, has_current_entry)
IsNewReferenceEntry(line, has_current_entry) ==
    IF ~has_current_entry THEN TRUE ELSE MatchBracketNumber(line)

\* [k.strip() for k in re.split('[;FwSemi]', keywords_text) if k.strip()]
RECURSIVE StripNonEmpty(_)
StripNonEmpty(parts) ==
    IF parts = <<>> THEN <<>>
    ELSE (IF Strip(parts[1]) # "" THEN <<Strip(parts[1])>> ELSE <<>>)
         \o StripNonEmpty(Tail(parts))

KeywordsOf(keywords_text) == StripNonEmpty(Split(keywords_text, {";", Cjk.FwSemi}))

\* line.split(FwColon, 1)[-1].split(':', 1)[-1]
KeywordsTextCn(line) == AfterFirst(AfterFirst(line, {Cjk.FwColon}), {":"})
\* line.split(':', 1)[-1]
KeywordsTextEn(line) == AfterFirst(line, {":"})

(* ------------------------------------------------------------------ *)
(* Helpers of USTCContentParser                                        *)
(* ------------------------------------------------------------------ *)
ChineseMap == [c \in CjkNumerals |->
    CHOOSE v \in 1..10 : <<Cjk.Yi, Cjk.Er, Cjk.San, Cjk.Si, Cjk.Wu, Cjk.Liu, Cjk.Qi, Cjk.Ba, Cjk.Jiu, Cjk.Shi>>[v] = c]

\* the same for a map without entries
ChineseMapGetNothing(key, default) == default

\* chinese_map.get(key, default)
ChineseMapGet(key, default) == IF key \in CjkNumerals THEN ChineseMap[key] ELSE default

\* USTCContentParser._chinese_to_arabic
ChineseToArabic(chinese_num) ==
    IF IsDigitStr(chinese_num) THEN ToInt(chinese_num)
    ELSE IF chinese_num \in CjkNumerals THEN ChineseMap[chinese_num]
    ELSE IF FindAny(chinese_num, {Cjk.Shi}, 1) # 0 THEN
        IF chinese_num = Cjk.Shi THEN 10
        ELSE IF StartsWith(chinese_num, Cjk.Shi)
            THEN 10 + ChineseMapGet(Char(chinese_num, 2), 0)
        ELSE IF EndsWith(chinese_num, Cjk.Shi)
            THEN ChineseMapGet(Char(chinese_num, 1), 0) * 10
        ELSE LET parts == Split(chinese_num, {Cjk.Shi})
             IN  ChineseMapGet(parts[1], 0) * 10 + ChineseMapGet(parts[2], 0)
    ELSE 1

\* self.chinese_numbers.get(key, default) of E1Parser: the numerals up to ten, the
\* teens and twenty
E1ChineseNumbersGet(key, default) ==
    IF key \in CjkNumerals THEN ChineseMap[key]
    ELSE IF Len(key) = 2 /\ Char(key, 1) = Cjk.Shi /\ Char(key, 2) \in CjkNumerals \ {Cjk.Shi}
        THEN 10 + ChineseMap[Char(key, 2)]
    ELSE IF key = Cjk.Er \o Cjk.Shi THEN 20
    ELSE default

\* E1Parser._chinese_to_arabic
E1ChineseToArabic(chinese_num) ==
    IF E1ChineseNumbersGet(chinese_num, -1) # -1    \* chinese_num in self.chinese_numbers
        THEN E1ChineseNumbersGet(chinese_num, -1)
    ELSE IF StartsWith(chinese_num, Cjk.Shi) /\ Len(chinese_num) = 2
        THEN 10 + E1ChineseNumbersGet(Char(chinese_num, 2), 0)
    ELSE IF EndsWith(chinese_num, Cjk.Shi)
        THEN E1ChineseNumbersGet(Char(chinese_num, 1), 0) * 10
    ELSE IF FindAny(chinese_num, {Cjk.Shi}, 1) # 0 /\ Len(chinese_num) = 3
        THEN E1ChineseNumbersGet(Char(chinese_num, 1), 0) * 10
             + E1ChineseNumbersGet(Char(chinese_num, 3), 0)
    ELSE 0

\* mapping.get(number, default) of ThesisGenerator._arabic_to_chinese
ArabicMappingGet(number, default) ==
    IF number \in 0..10
        THEN <<Cjk.Ling, Cjk.Yi, Cjk.Er, Cjk.San, Cjk.Si, Cjk.Wu, Cjk.Liu, Cjk.Qi, Cjk.Ba,
               Cjk.Jiu, Cjk.Shi>>[number + 1]
        ELSE default

\* ThesisGenerator._arabic_to_chinese, for number >= 0
ArabicToChinese(number) ==
    IF number <= 10 THEN ArabicMappingGet(number, NoneV)
    ELSE IF number < 20 THEN Cjk.Shi \o ArabicMappingGet(number - 10, NoneV)
    ELSE ArabicMappingGet(number \div 10, ToString(number \div 10)) \o Cjk.Shi
         \o (IF number % 10 # 0 THEN ArabicMappingGet(number % 10, "") ELSE "")

\* the characters of file names in code point order, for sorted()
Code(c) ==
    LET ascii == "-.0123456789ABCDEFGHIJKLMNOPQRSTUVWXYZ_abcdefghijklmnopqrstuvwxyz"
    IN  CHOOSE k \in 1..Len(ascii) : Char(ascii, k) = c

RECURSIVE StrLeq(_, _)
StrLeq(a, b) ==
    IF a = "" THEN TRUE
    ELSE IF b = "" THEN FALSE
    ELSE IF Char(a, 1) = Char(b, 1) THEN StrLeq(From(a, 2), From(b, 2))
    ELSE Code(Char(a, 1)) < Code(Char(b, 1))

ImageExtensions == <<".png", ".jpg", ".jpeg", ".bmp", ".gif", ".webp", ".tif", ".tiff">>

\* str.replace('-', '_')
RECURSIVE DashToUnderscore(_)
DashToUnderscore(s) ==
    IF s = "" THEN ""
    ELSE (IF Char(s, 1) = "-" THEN "_" ELSE Char(s, 1)) \o DashToUnderscore(From(s, 2))

\* USTCContentParser._resolve_figure_image_path; files is the content of
\* self.image_dir, and a path inside it is written without the directory prefix
ResolveFigureImagePath(files, figure_number, filename_hint) ==
    LET base_name == "figure_" \o DashToUnderscore(figure_number)
        byext == [k \in 1..(2 * Len(ImageExtensions)) |->
                    IF k % 2 = 1 THEN base_name \o ImageExtensions[(k + 1) \div 2]
                    ELSE base_name \o Upper(ImageExtensions[k \div 2])]
        search_candidates ==
            (IF filename_hint # NoneV THEN <<filename_hint>> ELSE <<>>) \o byext
        hits == {k \in 1..Len(search_candidates) : search_candidates[k] \in files}
        matches == {f \in files : StartsWith(f, base_name \o ".")}
    IN  IF hits # {}
          THEN search_candidates[CHOOSE k \in hits : \A h \in hits : k <= h]
        ELSE IF matches # {}
          THEN CHOOSE f \in matches : \A g \in matches : StrLeq(f, g)
        ELSE NoneV

\* USTCContentParser._build_references_list
RECURSIVE BuildReferencesFrom(_, _)
BuildReferencesFrom(references_buffer, idx) ==
    IF references_buffer = <<>> THEN <<>>
    ELSE LET text == Strip(references_buffer[1])
             n == RunLen(text, 2, Digits)
             after == n + 3
             w == RunLen(text, after, Spaces)
             matched == MatchBracketNumber(text) /\ after <= Len(text)
             group2 == IF after + w <= Len(text) THEN From(text, after + w)
                       ELSE Char(text, Len(text))
             entry == IF matched
                        THEN [index |-> idx,
                              original_index |-> ToInt(SubSeq(text, 2, n + 1)),
                              text |-> Strip(group2), raw |-> text]
                        ELSE [index |-> idx, original_index |-> NoneV,
                              text |-> text, raw |-> text]
         IN  (IF text = "" THEN <<>> ELSE <<entry>>)
             \o BuildReferencesFrom(Tail(references_buffer), idx + 1)

\* the enumeration started at 0 instead of 1
BuildReferencesListFromZero(references_buffer) == BuildReferencesFrom(references_buffer, 0)

BuildReferencesList(references_buffer) == BuildReferencesFrom(references_buffer, 1)

(* ------------------------------------------------------------------ *)
(* Helpers of USTCFormatter                                            *)
(* ------------------------------------------------------------------ *)
\* the numbers of CITATION_PATTERN.finditer(text), pattern \[(\d+)\], from position k on
RECURSIVE CitationsFrom(_, _)
CitationsFrom(text, k) ==
    IF k > Len(text) THEN <<>>
    ELSE LET n == RunLen(text, k + 1, Digits)
         IN  IF Char(text, k) = "[" /\ n >= 1 /\ Char(text, k + n + 1) = "]"
               THEN <<ToInt(SubSeq(text, k + 1, k + n))>> \o CitationsFrom(text, k + n + 2)
               ELSE CitationsFrom(text, k + 1)

Citations(text) == CitationsFrom(text, 1)

\* number.replace(".", "_")
RECURSIVE DotToUnderscore(_)
DotToUnderscore(s) ==
    IF s = "" THEN ""
    ELSE (IF Char(s, 1) = "." THEN "_" ELSE Char(s, 1)) \o DotToUnderscore(From(s, 2))

\* the first element of parts that is a digit string, default when there is none
RECURSIVE FirstDigitPart(_, _)
FirstDigitPart(parts, default) ==
    IF parts = <<>> THEN default
    ELSE IF IsDigitStr(parts[1]) THEN parts[1]
    ELSE FirstDigitPart(Tail(parts), default)

\* USTCFormatter._resolve_chapter_number(raw_number, default='1')
ResolveChapterNumber(raw_number, default) ==
    IF raw_number = NoneV THEN default
    ELSE LET text == Strip(raw_number)
         IN  IF text = "" THEN default
             ELSE IF IsDigitStr(text) THEN text
             ELSE FirstDigitPart(Split(text, {".", "-"}), default)

\* the characters [,.;:?!\)\]\}] of the sanitizer patterns, and the same without the period
Punctuation == {",", ".", ";", ":", "?", "!", ")", "]", "}"}

\* re.sub(r'https?://\S+', '', text, flags=re.IGNORECASE)
\* length of the match of https?:// at the start of text, 0 when there is none
SchemeLen(text) ==
    IF Len(text) >= 7 /\ Lower(SubSeq(text, 1, 7)) = "http://" THEN 7
    ELSE IF Len(text) >= 8 /\ Lower(SubSeq(text, 1, 8)) = "https://" THEN 8
    ELSE 0

\* length of the longest run of non-whitespace characters of s from position k
NonSpaceLen(s, k) ==
    LET stops == {j \in k..Len(s) : Char(s, j) \in Spaces}
    IN  IF stops = {} THEN (IF k <= Len(s) THEN Len(s) - k + 1 ELSE 0)
        ELSE (CHOOSE j \in stops : \A m \in stops : j <= m) - k

\* length of the match of https?://\S+ at the start of text, 0 when there is none
UrlLen(text) ==
    LET scheme == SchemeLen(text)
        n == NonSpaceLen(text, scheme + 1)
    IN  IF scheme # 0 /\ n >= 1 THEN scheme + n ELSE 0

RECURSIVE RemoveReferenceUrls(_)
RemoveReferenceUrls(text) ==
    IF text = "" THEN ""
    ELSE IF UrlLen(text) > 0 THEN RemoveReferenceUrls(From(text, UrlLen(text) + 1))
    ELSE Char(text, 1) \o RemoveReferenceUrls(From(text, 2))

\* text.translate(punctuation_map): of the mapped characters, the modelled texts hold
\* only the full-width colon and semicolon
RECURSIVE NormalizeReferencePunctuation(_)
NormalizeReferencePunctuation(text) ==
    IF text = "" THEN ""
    ELSE (IF Char(text, 1) = Cjk.FwColon THEN ":"
          ELSE IF Char(text, 1) = Cjk.FwSemi THEN ";"
          ELSE Char(text, 1)) \o NormalizeReferencePunctuation(From(text, 2))

\* re.sub(r'\s+([,.;:?!\)\]\}])', r'\1', text)
RECURSIVE RemoveSpaceBeforePunctuation(_)
RemoveSpaceBeforePunctuation(text) ==
    IF text = "" THEN ""
    ELSE LET w == RunLen(text, 1, Spaces)
         IN  IF w >= 1 /\ Char(text, w + 1) \in Punctuation
               THEN Char(text, w + 1) \o RemoveSpaceBeforePunctuation(From(text, w + 2))
               ELSE Char(text, 1) \o RemoveSpaceBeforePunctuation(From(text, 2))

\* re.sub(r'\s+', ' ', text)
RECURSIVE CollapseReferenceWhitespace(_)
CollapseReferenceWhitespace(text) ==
    IF text = "" THEN ""
    ELSE LET w == RunLen(text, 1, Spaces)
         IN  IF w >= 1 THEN " " \o CollapseReferenceWhitespace(From(text, w + 1))
             ELSE Char(text, 1) \o CollapseReferenceWhitespace(From(text, 2))

\* pattern.sub(r'\1 ', text) for pattern ([cls])(?=[^\s,.;:?!\)\]\}])
RECURSIVE SpaceAfter(_, _)
SpaceAfter(text, cls) ==
    IF text = "" THEN ""
    ELSE LET next == Char(text, 2)
         IN  (IF /\ Char(text, 1) \in cls
                 /\ Len(text) >= 2
                 /\ next \notin Spaces
                 /\ next \notin Punctuation
                THEN Char(text, 1) \o " "
                ELSE Char(text, 1)) \o SpaceAfter(From(text, 2), cls)

\* USTCFormatter._ensure_reference_spacing
EnsureReferenceSpacing(text) == SpaceAfter(SpaceAfter(text, Punctuation \ {"."}), {"."})

\* length of the match of \d+(?:-\d+)+ at the start of text, 0 when there is none
RECURSIVE DashGroups(_, _)
DashGroups(text, k) ==
    LET n == RunLen(text, k + 1, Digits)
    IN  IF Char(text, k) = "-" /\ n >= 1 THEN DashGroups(text, k + n + 1) ELSE k - 1

SequenceLen(text) ==
    LET n == RunLen(text, 1, Digits)
        e == IF n >= 1 THEN DashGroups(text, n + 1) ELSE 0
    IN  IF e > n THEN e ELSE 0

\* segment.replace('-', WORD_JOINER-WORD_JOINER)
RECURSIVE WrapDashes(_)
WrapDashes(segment) ==
    IF segment = "" THEN ""
    ELSE (IF Char(segment, 1) = "-" THEN WordJoiner \o "-" \o WordJoiner
          ELSE Char(segment, 1)) \o WrapDashes(From(segment, 2))

\* USTCFormatter._protect_reference_sequences
RECURSIVE ProtectReferenceSequences(_)
ProtectReferenceSequences(text) ==
    IF text = "" THEN ""
    ELSE LET n == SequenceLen(text)
         IN  IF n > 0
               THEN WrapDashes(SubSeq(text, 1, n)) \o ProtectReferenceSequences(From(text, n + 1))
               ELSE Char(text, 1) \o ProtectReferenceSequences(From(text, 2))

\* re.sub(r'\s+\.', '.', sanitized)
RECURSIVE RemoveSpaceBeforePeriod(_)
RemoveSpaceBeforePeriod(text) ==
    IF text = "" THEN ""
    ELSE LET w == RunLen(text, 1, Spaces)
         IN  IF w >= 1 /\ Char(text, w + 1) = "."
               THEN "." \o RemoveSpaceBeforePeriod(From(text, w + 2))
               ELSE Char(text, 1) \o RemoveSpaceBeforePeriod(From(text, 2))

\* the same with the test of the final character left out
EnsureFinalPeriodAlways(sanitized) ==
    IF sanitized # "" THEN sanitized \o "." ELSE sanitized

\* "if sanitized and not sanitized.endswith('.'): sanitized = f'{sanitized}.'"
EnsureFinalPeriod(sanitized) ==
    IF sanitized # "" /\ ~EndsWith(sanitized, ".") THEN sanitized \o "." ELSE sanitized

\* USTCFormatter._sanitize_reference_text
SanitizeReferenceText(text) ==
    IF text = "" THEN ""
    ELSE EnsureFinalPeriod(
             RemoveSpaceBeforePeriod(
                 Strip(ProtectReferenceSequences(
                     CollapseReferenceWhitespace(
                         EnsureReferenceSpacing(
                             CollapseReferenceWhitespace(
                                 RemoveSpaceBeforePunctuation(
                                     NormalizeReferencePunctuation(
                                         RemoveReferenceUrls(Strip(text)))))))))))

(* ------------------------------------------------------------------ *)
(* Bounded inputs                                                      *)
(* ------------------------------------------------------------------ *)
MaxLines == 5        \* longest input text, in lines
MaxBlockLines == 6   \* longest input text of the block families, in lines

\* The input families: every input text is a sequence of lines of one family.
Families ==
    [sections   |-> <<"", "alpha", "[ABSTRACT]", "[ABSTRACT_EN]", "[ACKNOWLEDGEMENTS]",
                      "[APPENDIX]">>,
     closes     |-> <<" beta ", "[ACKNOWLEDGEMENTS]", "[/ACKNOWLEDGEMENTS]", "[APPENDIX]",
                      "[/APPENDIX]">>,
     keywords   |-> <<"[ABSTRACT]", Cjk.GuanJianCi \o Cjk.FwColon \o "a" \o Cjk.FwSemi \o " b",
                      "[ABSTRACT_EN]", "Key words: k1; k2;", "gamma">>,
     references |-> <<"", "[REFERENCES]", "[7] A", "cont", "[ACKNOWLEDGEMENTS]",
                      "[/REFERENCES]">>,
     entries    |-> <<"[REFERENCES]", "[5] A", "B continued", "[2] C", "[5]">>,
     closing    |-> <<"[ABSTRACT]", "summary", "[/ABSTRACT]", "[/BODY]">>,
     orphan     |-> <<"[ABSTRACT]", "[TABLE:1-1]", "cap|src", "[/TABLE]">>,
     mixed      |-> <<"[ABSTRACT]", "summary", Cjk.Di \o "1" \o Cjk.Zhang \o " A", "1.1 H",
                      "[FORMULA:1-1]">>,
     body       |-> <<"[BODY]", Cjk.Di \o Cjk.Yi \o Cjk.Zhang \o " Intro", "2 Methods",
                      "1.1 Background", "1.1.1 Detail", "delta [1]">>,
     malformed  |-> <<"[BODY]", "epsilon", Rep("1", MaxStrDigits + 1) \o " Big",
                      Cjk.Di \o Cjk.Yi \o Cjk.Er \o Cjk.Zhang \o " Odd", "[FIGURE:x]">>,
     figure     |-> <<Cjk.Di \o "1" \o Cjk.Zhang \o " Intro", "[FIGURE:1-1]", "cap | src | pic.png",
                      "extra", "[/FIGURE]">>,
     table      |-> <<Cjk.Di \o "1" \o Cjk.Zhang \o " Intro", "[TABLE:1-1]", "cap|src", "a | b",
                      "[/TABLE]">>,
     formula    |-> <<Cjk.Di \o "1" \o Cjk.Zhang \o " Intro", "[FORMULA:1-1]", "E mc2",
                      "[/FORMULA]", "References">>]

\* the families whose texts hold a chapter heading and a block
BlockFamilies == {"figure", "table", "formula"}

\* the longest text of family f
MaxLinesOf(f) == IF f \in BlockFamilies THEN MaxBlockLines ELSE MaxLines

\* The contents of the image directory the parser is constructed with.
ImageDirs(f) == IF f = "figure" THEN {{}, {"figure_1_1.png", "pic.png"}}
                ELSE {{}}

FamilyNames == DOMAIN Families
LinesOf(f) == {Families[f][k] : k \in 1..Len(Families[f])}
AllLines == UNION {LinesOf(f) : f \in FamilyNames}

(* ------------------------------------------------------------------ *)
(* Classification of one line: the tests of the loop body, in order    *)
(* ------------------------------------------------------------------ *)
LineFacts(l) ==
    LET ln == Strip(l)
    IN  [ln           |-> ln,
         blank        |-> ln = "",
         hash         |-> StartsWith(ln, "#"),
         abstract     |-> StartsWith(ln, "[ABSTRACT]"),
         keywords     |-> \/ StartsWith(ln, Cjk.GuanJianCi \o Cjk.FwColon)
                          \/ StartsWith(ln, Cjk.GuanJianCi \o ":"),
         abstract_en  |-> StartsWith(Upper(ln), "[ABSTRACT_EN]") \/ Upper(ln) = "ABSTRACT",
         keywords_en  |-> \/ StartsWith(Lower(ln), "key words:")
                          \/ StartsWith(Lower(ln), "keywords:"),
         body         |-> StartsWith(ln, "[BODY]"),
         body_chapter |-> MatchBodyChapter(ln),
         ref_header   |-> IsReferencesHeader(ln),
         ref_close    |-> StartsWith(Upper(ln), "[/REFERENCES]"),
         bracket      |-> MatchBracketNumber(ln),
         ack_header   |-> IsAcknowledgementsHeader(ln),
         ack_close    |-> StartsWith(Upper(ln), "[/ACKNOWLEDGEMENTS]"),
         app_header   |-> IsAppendixHeader(ln),
         app_close    |-> StartsWith(Upper(ln), "[/APPENDIX]"),
         match1       |-> Match1(ln),
         match2       |-> Match2(ln),
         match_h2     |-> MatchH2(ln),
         match_h3     |-> MatchH3(ln),
         fig_prefix   |-> StartsWith(ln, "[FIGURE:"),
         match_fig    |-> BlockId(ln, "[FIGURE:"),
         tbl_prefix   |-> StartsWith(ln, "[TABLE:"),
         match_tbl    |-> BlockId(ln, "[TABLE:"),
         frm_prefix   |-> StartsWith(ln, "[FORMULA:"),
         match_formula |-> BlockId(ln, "[FORMULA:")]

\* the classification of the lines ls, tabulated
RECURSIVE FactsOf(_)
FactsOf(ls) ==
    IF ls = {} THEN <<>>
    ELSE LET l == CHOOSE x \in ls : TRUE
         IN  (l :> LineFacts(l)) @@ FactsOf(ls \ {l})

(* ------------------------------------------------------------------ *)
(* State of one parse_text call                                        *)
(* ------------------------------------------------------------------ *)
VARIABLES
    fam,                      \* the family the input text is drawn from
    facts,                    \* what the tests of the loop body find on each line of fam
    image_files,              \* the files of self.image_dir (names relative to it)
    lines,                    \* text.split('\n'), as far as it has been read
    eof,                      \* TRUE once len(lines) is known to be Len(lines)
    pc,                       \* "loop", "table", "formula" (block body scan), "done"
    i,                        \* index of the next line (0-based, as in the code)
    line,                     \* lines[i].strip() of the last iteration
    branch,                   \* the branch of the loop body taken by the last iteration
    current_section,
    current_chapter,          \* position in content.chapters, 0 for None
    current_paragraph,
    references_buffer,
    current_reference_lines,
    blk,                      \* locals of an open TABLE / FORMULA block
    content,
    gen_pc,                   \* position of USTCFormatter.generate
    chapter_idx,              \* index of the chapter _generate_body is at (0-based)
    item_idx,                 \* index of the item _generate_chapter is at (0-based)
    formatter,                \* the attributes of the USTCFormatter instance
    returned,                 \* the trees parse_text has returned to its caller so far
    saved,                    \* the documents generate has saved so far
    output_path,              \* the output_path generate is called with
    disk_files                \* the files on disk: their paths, and whether os.remove fails

gen_vars == <<gen_pc, chapter_idx, item_idx, formatter, saved, output_path, disk_files>>

vars == <<fam, facts, image_files, lines, eof, pc, i, line, branch, current_section, current_chapter,
          current_paragraph, references_buffer, current_reference_lines, blk, content,
          gen_pc, chapter_idx, item_idx, formatter, returned, saved, output_path, disk_files>>

EmptyContent ==
    [title |-> "",
     abstract |-> [content |-> <<>>, keywords |-> <<>>],
     abstract_en |-> [content |-> <<>>, keywords |-> <<>>],
     chapters |-> <<>>,
     references |-> <<>>,
     acknowledgements |-> <<>>,
     appendix |-> <<>>]

NoBlock == [number |-> NoneV, caption |-> "", source |-> NoneV, body |-> <<>>]

\* the document under construction, as far as anchors, links and numbering go

\* USTCFormatter._reset_document
ResetDocument ==
    [doc |-> [bookmarks |-> <<>>, links |-> <<>>, runs |-> <<>>, toc |-> <<>>],
     bookmark_id |-> 0,
     reference_targets |-> <<>>,
     references_data |-> <<>>,
     reference_backlinks |-> <<>>]

\* output_dir / 'e5thesis.docx' of the entry script (generate.py:13-14), which makes the
\* directory before it calls generate (generate.py:21)
RunnerOutputPath == "output/e5thesis.docx"

\* the directories that exist; "" stands for the working directory
ExistingDirs == {"", "output"}

\* os.path.dirname
RECURSIVE Dirname(_)
Dirname(path) ==
    IF path = "" THEN ""
    ELSE IF Char(path, Len(path)) = "/" THEN SubSeq(path, 1, Len(path) - 1)
    ELSE Dirname(SubSeq(path, 1, Len(path) - 1))

\* the files left by the deletion loop of generate (formatter.py:425-434): the files
\* glob finds under output_dir are removed, but for the ones os.remove raises for
RemoveOldDocx(fs, path) ==
    LET output_dir == Dirname(path)
        old_docx_files == {f \in fs : Dirname(f.path) = output_dir /\ EndsWith(f.path, ".docx")}
    IN  IF output_dir # "" /\ output_dir \in ExistingDirs
          THEN fs \ {f \in old_docx_files : ~f.locked}
          ELSE fs

\* the same with a new document only: the counter and the maps keep what f holds
ResetDocumentOnly(f) == [f EXCEPT !.doc = ResetDocument.doc]

\* self._reset_document() on an instance that holds f: every attribute is assigned anew
ResetFormatter(f) == ResetDocument

Init ==
    /\ fam \in FamilyNames
    /\ facts = FactsOf(LinesOf(fam))
    /\ image_files \in ImageDirs(fam)
    /\ lines = <<>>
    /\ eof = FALSE
    /\ pc = "loop"
    /\ i = 0
    /\ line = ""
    /\ branch = "start"
    /\ current_section = NoneV
    /\ current_chapter = 0
    /\ current_paragraph = <<>>
    /\ references_buffer = <<>>
    /\ current_reference_lines = <<>>
    /\ blk = NoBlock
    /\ content = EmptyContent
    /\ gen_pc = "idle"
    /\ chapter_idx = 0
    /\ item_idx = 0
    /\ formatter = ResetDocument
    /\ returned = <<>>
    /\ saved = <<>>
    /\ output_path = RunnerOutputPath
    /\ disk_files = {}

(* ------------------------------------------------------------------ *)
(* The branch an iteration takes                                       *)
(* ------------------------------------------------------------------ *)
\* current_section after the test of parser.py:125-132 has been passed: a line of the
\* chapter pattern sets it to 'body' and falls through to the tests below
SectionAfterBodyTest(l) == IF facts[l].body_chapter THEN "body" ELSE current_section

\* the branch of the loop body that handles line l in the current state (first match wins)
Role(l) ==
    LET F == facts[l]
        sec == SectionAfterBodyTest(l)
    IN  IF F.blank THEN "blank"
        ELSE IF i = 0 /\ ~F.hash THEN "title"
        ELSE IF F.abstract THEN "abstract"
        ELSE IF F.keywords THEN "keywords"
        ELSE IF F.abstract_en THEN "abstract_en"
        ELSE IF F.keywords_en THEN "keywords_en"
        ELSE IF F.body THEN "body"
        ELSE IF F.ref_header THEN "references"
        ELSE IF sec = "references"
            THEN (IF F.ref_close THEN "references_close" ELSE "reference_line")
        ELSE IF F.ack_header THEN "acknowledgements"
        ELSE IF F.ack_close THEN "acknowledgements_close"
        ELSE IF F.app_header THEN "appendix"
        ELSE IF F.app_close THEN "appendix_close"
        ELSE IF F.match1.ok \/ (F.match2.ok /\ sec = "body") THEN "chapter"
        ELSE IF F.match_h2.ok /\ current_chapter # 0 THEN "heading2"
        ELSE IF F.match_h3.ok /\ current_chapter # 0 THEN "heading3"
        ELSE IF F.fig_prefix
            THEN (IF F.match_fig # NoneV /\ current_chapter # 0 THEN "figure" ELSE "skipped")
        ELSE IF F.tbl_prefix
            THEN (IF F.match_tbl # NoneV /\ current_chapter # 0 THEN "table" ELSE "skipped")
        ELSE IF F.frm_prefix
            THEN (IF F.match_formula # NoneV /\ current_chapter # 0 THEN "formula"
                  ELSE "skipped")
        ELSE "text"

(* ------------------------------------------------------------------ *)
(* Reading the input                                                   *)
(* ------------------------------------------------------------------ *)
\* the lines that lines[i] can be: the line already looked at, or any line of the family
\* while the text may still grow
LinesAtI ==
    IF i < Len(lines) THEN {lines[i + 1]}
    ELSE IF ~eof /\ i < MaxLinesOf(fam) THEN LinesOf(fam)
    ELSE {}

\* lines, once lines[i] = l has been read
Drawn(l) == IF i < Len(lines) THEN lines ELSE Append(lines, l)

\* one more line can follow the lines ls
MayFollow(ls) == ~eof /\ Len(ls) < MaxLinesOf(fam)

\* the lines that lines[k - 1] can be, ls being the lines looked at so far
LineAt(ls, k) ==
    IF k <= Len(ls) THEN {ls[k]}
    ELSE IF MayFollow(ls) THEN LinesOf(fam)
    ELSE {}

\* ls, once lines[k - 1] = l has been looked at
Read(ls, k, l) == IF k <= Len(ls) THEN ls ELSE Append(ls, l)

\* an iteration of the main loop on line l that takes branch tag and reads no further line
Iteration(l, tag) ==
    /\ pc = "loop"
    /\ l \in LinesAtI
    /\ Role(l) = tag
    /\ line' = facts[l].ln
    /\ branch' = tag

(* ------------------------------------------------------------------ *)
(* Tree updates                                                        *)
(* ------------------------------------------------------------------ *)
ParaText(paragraph) == Join(paragraph, " ")

Paragraph(text) == [type |-> "paragraph", text |-> text]

\* current_chapter['content'].append(node)
AddNode(c, ch, node) ==
    [c EXCEPT !.chapters[ch].content = Append(@, node)]

\* the if / elif chain that stores a paragraph by section (parser.py:71-83, 435-447)
StoreBySection(c, sec, ch, text) ==
    IF sec = "abstract" THEN [c EXCEPT !.abstract.content = Append(@, text)]
    ELSE IF sec = "abstract_en" THEN [c EXCEPT !.abstract_en.content = Append(@, text)]
    ELSE IF sec = "body" /\ ch # 0 THEN AddNode(c, ch, Paragraph(text))
    ELSE IF sec = "acknowledgements" THEN [c EXCEPT !.acknowledgements = Append(@, text)]
    ELSE IF sec = "appendix" THEN [c EXCEPT !.appendix = Append(@, text)]
    ELSE c

\* the shorter chain of the acknowledgements / appendix headers (parser.py:173-181)
StoreAtHeader(c, sec, ch, text) ==
    IF sec = "body" /\ ch # 0 THEN AddNode(c, ch, Paragraph(text))
    ELSE IF sec = "acknowledgements" THEN [c EXCEPT !.acknowledgements = Append(@, text)]
    ELSE IF sec = "appendix" THEN [c EXCEPT !.appendix = Append(@, text)]
    ELSE c

\* the append without the "if current_paragraph" test
FlushIntoChapterAlways(c, ch, paragraph) == AddNode(c, ch, Paragraph(ParaText(paragraph)))

\* "if current_paragraph: current_chapter['content'].append(paragraph)" of the
\* headings and block directives, which run with a current chapter
FlushIntoChapter(c, ch, paragraph) ==
    IF paragraph # <<>> THEN AddNode(c, ch, Paragraph(ParaText(paragraph))) ELSE c

\* references_buffer.append(' '.join(current_reference_lines).strip()), when lines are open
CloseReferenceEntry(buffer, open) ==
    IF open # <<>> THEN Append(buffer, Strip(Join(open, " "))) ELSE buffer

(* ------------------------------------------------------------------ *)
(* parse_text: one action per branch of the loop body                  *)
(* ------------------------------------------------------------------ *)
\* a variant that reads over the blank line
BlankLineSkipped(l) ==
    /\ Iteration(l, "blank")
    /\ lines' = Drawn(l)
    /\ i' = i + 1
    /\ UNCHANGED <<gen_vars, returned, fam, facts, image_files, eof, pc, current_section,
                   current_chapter, blk, current_paragraph, content, references_buffer,
                   current_reference_lines>>

\* parser.py:63-86
BlankLine(l) ==
    /\ Iteration(l, "blank")
    /\ lines' = Drawn(l)
    /\ i' = i + 1
    /\ IF current_section = "references"
         THEN /\ references_buffer' =
                    CloseReferenceEntry(references_buffer, current_reference_lines)
              /\ current_reference_lines' = <<>>
              /\ UNCHANGED <<current_paragraph, content>>
         ELSE IF current_paragraph # <<>> /\ current_section # NoneV
         THEN /\ content' = StoreBySection(content, current_section, current_chapter,
                                           ParaText(current_paragraph))
              /\ current_paragraph' = <<>>
              /\ UNCHANGED <<references_buffer, current_reference_lines>>
         ELSE UNCHANGED <<current_paragraph, content, references_buffer,
                          current_reference_lines>>
    /\ UNCHANGED <<gen_vars, returned, fam, facts, image_files, eof, pc, current_section, current_chapter, blk>>

\* parser.py:88-92
TitleLine(l) ==
    /\ Iteration(l, "title")
    /\ lines' = Drawn(l)
    /\ i' = i + 1
    /\ content' = [content EXCEPT !.title = facts[l].ln]
    /\ UNCHANGED <<gen_vars, returned, fam, facts, image_files, eof, pc, current_section, current_chapter,
                   current_paragraph, references_buffer, current_reference_lines, blk>>

\* parser.py:94-98
AbstractMarker(l) ==
    /\ Iteration(l, "abstract")
    /\ lines' = Drawn(l)
    /\ i' = i + 1
    /\ current_section' = "abstract"
    /\ UNCHANGED <<gen_vars, returned, fam, facts, image_files, eof, pc, current_chapter, current_paragraph,
                   references_buffer, current_reference_lines, blk, content>>

\* parser.py:100-107
KeywordsLine(l) ==
    /\ Iteration(l, "keywords")
    /\ lines' = Drawn(l)
    /\ i' = i + 1
    /\ content' = [content EXCEPT
                     !.abstract.keywords = KeywordsOf(KeywordsTextCn(facts[l].ln))]
    /\ current_section' = NoneV
    /\ UNCHANGED <<gen_vars, returned, fam, facts, image_files, eof, pc, current_chapter, current_paragraph,
                   references_buffer, current_reference_lines, blk>>

\* parser.py:109-113
AbstractEnMarker(l) ==
    /\ Iteration(l, "abstract_en")
    /\ lines' = Drawn(l)
    /\ i' = i + 1
    /\ current_section' = "abstract_en"
    /\ UNCHANGED <<gen_vars, returned, fam, facts, image_files, eof, pc, current_chapter, current_paragraph,
                   references_buffer, current_reference_lines, blk, content>>

\* parser.py:115-122
KeywordsEnLine(l) ==
    /\ Iteration(l, "keywords_en")
    /\ lines' = Drawn(l)
    /\ i' = i + 1
    /\ content' = [content EXCEPT
                     !.abstract_en.keywords = KeywordsOf(KeywordsTextEn(facts[l].ln))]
    /\ current_section' = NoneV
    /\ UNCHANGED <<gen_vars, returned, fam, facts, image_files, eof, pc, current_chapter, current_paragraph,
                   references_buffer, current_reference_lines, blk>>

\* parser.py:124-132, the [BODY] marker
BodyMarker(l) ==
    /\ Iteration(l, "body")
    /\ lines' = Drawn(l)
    /\ i' = i + 1
    /\ current_section' = "body"
    /\ UNCHANGED <<gen_vars, returned, fam, facts, image_files, eof, pc, current_chapter, current_paragraph,
                   references_buffer, current_reference_lines, blk, content>>

\* parser.py:134-146
ReferencesHeader(l) ==
    /\ Iteration(l, "references")
    /\ lines' = Drawn(l)
    /\ i' = i + 1
    /\ IF /\ current_paragraph # <<>>
          /\ SectionAfterBodyTest(l) = "body"
          /\ current_chapter # 0
         THEN /\ content' = AddNode(content, current_chapter,
                                    Paragraph(ParaText(current_paragraph)))
              /\ current_paragraph' = <<>>
         ELSE UNCHANGED <<content, current_paragraph>>
    /\ current_section' = "references"
    /\ current_reference_lines' = <<>>
    /\ UNCHANGED <<gen_vars, returned, fam, facts, image_files, eof, pc, current_chapter, references_buffer, blk>>

\* parser.py:148-155
ReferencesClose(l) ==
    /\ Iteration(l, "references_close")
    /\ lines' = Drawn(l)
    /\ i' = i + 1
    /\ references_buffer' = CloseReferenceEntry(references_buffer, current_reference_lines)
    /\ current_reference_lines' = <<>>
    /\ current_section' = NoneV
    /\ UNCHANGED <<gen_vars, returned, fam, facts, image_files, eof, pc, current_chapter, current_paragraph, blk,
                   content>>

\* parser.py:157-164
ReferenceLine(l) ==
    /\ Iteration(l, "reference_line")
    /\ lines' = Drawn(l)
    /\ i' = i + 1
    /\ IF IsNewReferenceEntry(facts[l].ln, current_reference_lines # <<>>)
         THEN /\ references_buffer' =
                    CloseReferenceEntry(references_buffer, current_reference_lines)
              /\ current_reference_lines' = <<facts[l].ln>>
         ELSE /\ current_reference_lines' = Append(current_reference_lines, facts[l].ln)
              /\ UNCHANGED references_buffer
    /\ UNCHANGED <<gen_vars, returned, fam, facts, image_files, eof, pc, current_section, current_chapter,
                   current_paragraph, blk, content>>

\* parser.py:166-185 (section = 'acknowledgements') and 195-214 (section = 'appendix')
SectionHeader(l, tag) ==
    /\ Iteration(l, tag)
    /\ lines' = Drawn(l)
    /\ i' = i + 1
    /\ references_buffer' = CloseReferenceEntry(references_buffer, current_reference_lines)
    /\ current_reference_lines' = <<>>
    /\ IF current_paragraph # <<>>
         THEN /\ content' = StoreAtHeader(content, SectionAfterBodyTest(l), current_chapter,
                                          ParaText(current_paragraph))
              /\ current_paragraph' = <<>>
         ELSE UNCHANGED <<content, current_paragraph>>
    /\ current_section' = tag
    /\ UNCHANGED <<gen_vars, returned, fam, facts, image_files, eof, pc, current_chapter, blk>>


\* parser.py:187-193 (section = 'acknowledgements') and 216-222 (section = 'appendix')
SectionClose(l, tag, section) ==
    /\ Iteration(l, tag)
    /\ lines' = Drawn(l)
    /\ i' = i + 1
    /\ IF current_paragraph # <<>> /\ SectionAfterBodyTest(l) = section
         THEN /\ content' = StoreAtHeader(content, section, 0, ParaText(current_paragraph))
              /\ current_paragraph' = <<>>
         ELSE UNCHANGED <<content, current_paragraph>>
    /\ current_section' = NoneV
    /\ UNCHANGED <<gen_vars, returned, fam, facts, image_files, eof, pc, current_chapter, references_buffer,
                   current_reference_lines, blk>>


\* the conversion of the chapter number raises (parser.py:239-243, 501-502)
ChapterNumberRaises(F) ==
    IF F.match1.ok THEN IsDigitStr(F.match1.num) /\ IntRaises(F.match1.num)
    ELSE IntRaises(F.match2.num)

\* parser.py:224-252
ChapterHeading(l) ==
    /\ Iteration(l, "chapter")
    /\ lines' = Drawn(l)
    /\ IF ChapterNumberRaises(facts[l])
         THEN /\ pc' = "raised"
              /\ UNCHANGED <<i, current_section, current_chapter, current_paragraph, content>>
         ELSE LET F == facts[l]
                  flushed == IF current_paragraph # <<>> /\ current_chapter # 0
                               THEN AddNode(content, current_chapter,
                                            Paragraph(ParaText(current_paragraph)))
                               ELSE content
                  chapter == IF F.match1.ok
                               THEN [number |-> ChineseToArabic(F.match1.num),
                                     title |-> Strip(F.match1.text), content |-> <<>>]
                               ELSE [number |-> ToInt(F.match2.num),
                                     title |-> Strip(F.match2.text), content |-> <<>>]
              IN  /\ pc' = pc
                  /\ i' = i + 1
                  /\ content' = [flushed EXCEPT !.chapters = Append(@, chapter)]
                  /\ current_chapter' = Len(content.chapters) + 1
                  /\ current_paragraph' = IF current_chapter # 0 THEN <<>>
                                          ELSE current_paragraph
                  /\ current_section' = SectionAfterBodyTest(l)
    /\ UNCHANGED <<gen_vars, returned, fam, facts, image_files, eof, references_buffer, current_reference_lines,
                   blk>>

\* parser.py:254-271 (heading2) and 273-290 (heading3)
SubHeading(l, tag, m) ==
    /\ Iteration(l, tag)
    /\ lines' = Drawn(l)
    /\ i' = i + 1
    /\ content' = AddNode(FlushIntoChapter(content, current_chapter, current_paragraph),
                          current_chapter,
                          [type |-> tag, number |-> m.num, text |-> Strip(m.text)])
    /\ current_paragraph' = <<>>
    /\ current_section' = SectionAfterBodyTest(l)
    /\ UNCHANGED <<gen_vars, returned, fam, facts, image_files, eof, pc, current_chapter, references_buffer,
                   current_reference_lines, blk>>


\* [part.strip() for part in caption_line.split('|')]
RECURSIVE StripAll(_)
StripAll(parts) ==
    IF parts = <<>> THEN <<>> ELSE <<Strip(parts[1])>> \o StripAll(Tail(parts))

\* the figure node built from the caption line (parser.py:307-326)
FigureNode(files, number, caption_line) ==
    LET parts == StripAll(Split(caption_line, {"|"}))
        source == IF Len(parts) > 1 /\ parts[2] # "" THEN parts[2] ELSE NoneV
        image_hint == IF Len(parts) > 2 /\ parts[3] # "" THEN parts[3] ELSE NoneV
    IN  [type |-> "figure", number |-> number, caption |-> parts[1], source |-> source,
         path |-> ResolveFigureImagePath(files, number, image_hint)]

\* parser.py:292-332: the directive, the caption line and the look at the line after it
FigureBlock(l) ==
    /\ Iteration(l, "figure")
    /\ current_paragraph' = <<>>
    /\ LET flushed == FlushIntoChapter(content, current_chapter, current_paragraph)
           number == facts[l].match_fig
       IN  \/ \* the text ends with the directive
              /\ Len(Drawn(l)) = i + 1
              /\ eof' = TRUE
              /\ lines' = Drawn(l)
              /\ content' = flushed
              /\ i' = i + 2
           \/ \* a caption line, then the end of the text
              \E cap \in LineAt(Drawn(l), i + 2) :
                /\ Len(Read(Drawn(l), i + 2, cap)) = i + 2
                /\ eof' = TRUE
                /\ lines' = Read(Drawn(l), i + 2, cap)
                /\ content' = AddNode(flushed, current_chapter,
                                      FigureNode(image_files, number, facts[cap].ln))
                /\ i' = i + 2
           \/ \* a caption line, then a line that is skipped only when it is [/FIGURE]
              \E cap \in LineAt(Drawn(l), i + 2) :
                \E nxt \in LineAt(Read(Drawn(l), i + 2, cap), i + 3) :
                  /\ eof' = eof
                  /\ lines' = Read(Read(Drawn(l), i + 2, cap), i + 3, nxt)
                  /\ content' = AddNode(flushed, current_chapter,
                                        FigureNode(image_files, number, facts[cap].ln))
                  /\ i' = IF facts[nxt].ln = "[/FIGURE]" THEN i + 3 ELSE i + 2
    /\ current_section' = SectionAfterBodyTest(l)
    /\ UNCHANGED <<gen_vars, returned, fam, facts, image_files, pc, current_chapter, references_buffer,
                   current_reference_lines, blk>>

\* parser.py:333-334, 384-385, 415-416: a directive without identifier or chapter
BlockSkipped(l) ==
    /\ Iteration(l, "skipped")
    /\ lines' = Drawn(l)
    /\ i' = i + 1
    /\ current_section' = SectionAfterBodyTest(l)
    /\ UNCHANGED <<gen_vars, returned, fam, facts, image_files, eof, pc, current_chapter, current_paragraph,
                   references_buffer, current_reference_lines, blk, content>>

\* parser.py:336-360: the directive and its caption line
TableOpen(l) ==
    /\ Iteration(l, "table")
    /\ content' = FlushIntoChapter(content, current_chapter, current_paragraph)
    /\ current_paragraph' = <<>>
    /\ pc' = "table"
    /\ \/ \* the text ends with the directive
          /\ Len(Drawn(l)) = i + 1
          /\ eof' = TRUE
          /\ lines' = Drawn(l)
          /\ i' = i + 1
          /\ blk' = [NoBlock EXCEPT !.number = facts[l].match_tbl]
       \/ \E cap \in LineAt(Drawn(l), i + 2) :
            /\ eof' = eof
            /\ lines' = Read(Drawn(l), i + 2, cap)
            /\ i' = i + 2
            /\ LET parts == Split(facts[cap].ln, {"|"})
               IN  blk' = [number |-> facts[l].match_tbl,
                           caption |-> parts[1],
                           source |-> IF Len(parts) > 1 THEN parts[2] ELSE NoneV,
                           body |-> <<>>]
    /\ current_section' = SectionAfterBodyTest(l)
    /\ UNCHANGED <<gen_vars, returned, fam, facts, image_files, current_chapter, references_buffer,
                   current_reference_lines>>

\* rows = [[cell.strip() for cell in tbl_line.split('|')] for tbl_line in table_lines]
RECURSIVE TableRows(_)
TableRows(table_lines) ==
    IF table_lines = <<>> THEN <<>>
    ELSE <<StripAll(Split(table_lines[1], {"|"}))>> \o TableRows(Tail(table_lines))

TableNode(b) ==
    [type |-> "table", number |-> b.number, caption |-> b.caption, source |-> b.source,
     rows |-> TableRows(b.body)]

FormulaNode(b) ==
    [type |-> "formula", number |-> b.number, content |-> Join(b.body, "\n")]

\* an iteration of a block body scan (parser.py:363-369, 402-408) on line l
Scan(l, at) ==
    /\ pc = at
    /\ l \in LinesAtI
    /\ lines' = Drawn(l)
    /\ line' = facts[l].ln
    /\ i' = i + 1

\* parser.py:363-369, a line other than [/TABLE]
TableLine(l) ==
    /\ Scan(l, "table")
    /\ facts[l].ln # "[/TABLE]"
    /\ branch' = "table_line"
    /\ blk' = IF facts[l].ln # "" /\ ~StartsWith(facts[l].ln, "[")
                THEN [blk EXCEPT !.body = Append(@, facts[l].ln)]
                ELSE blk
    /\ UNCHANGED <<gen_vars, returned, fam, facts, image_files, eof, pc, current_section, current_chapter,
                   current_paragraph, references_buffer, current_reference_lines, content>>

\* parser.py:365-366 and 371-385: [/TABLE] ends the scan, the node is appended and the
\* closing line is stepped over
TableClose(l) ==
    /\ Scan(l, "table")
    /\ facts[l].ln = "[/TABLE]"
    /\ branch' = "table_close"
    /\ content' = AddNode(content, current_chapter, TableNode(blk))
    /\ blk' = NoBlock
    /\ pc' = "loop"
    /\ UNCHANGED <<gen_vars, returned, fam, facts, image_files, eof, current_section, current_chapter,
                   current_paragraph, references_buffer, current_reference_lines>>

\* parser.py:363 and 371-385: the scan runs off the end of the text
TableEnd ==
    /\ pc = "table"
    /\ Len(lines) <= i
    /\ eof' = TRUE
    /\ branch' = "table_end"
    /\ content' = AddNode(content, current_chapter, TableNode(blk))
    /\ blk' = NoBlock
    /\ i' = i + 1
    /\ pc' = "loop"
    /\ UNCHANGED <<gen_vars, returned, fam, facts, image_files, lines, line, current_section, current_chapter,
                   current_paragraph, references_buffer, current_reference_lines>>

\* parser.py:387-400
FormulaOpen(l) ==
    /\ Iteration(l, "formula")
    /\ lines' = Drawn(l)
    /\ i' = i + 1
    /\ content' = FlushIntoChapter(content, current_chapter, current_paragraph)
    /\ current_paragraph' = <<>>
    /\ blk' = [NoBlock EXCEPT !.number = facts[l].match_formula]
    /\ pc' = "formula"
    /\ current_section' = SectionAfterBodyTest(l)
    /\ UNCHANGED <<gen_vars, returned, fam, facts, image_files, eof, current_chapter, references_buffer,
                   current_reference_lines>>

\* parser.py:402-408, a line other than [/FORMULA]
FormulaLine(l) ==
    /\ Scan(l, "formula")
    /\ facts[l].ln # "[/FORMULA]"
    /\ branch' = "formula_line"
    /\ blk' = IF facts[l].ln # "" THEN [blk EXCEPT !.body = Append(@, facts[l].ln)] ELSE blk
    /\ UNCHANGED <<gen_vars, returned, fam, facts, image_files, eof, pc, current_section, current_chapter,
                   current_paragraph, references_buffer, current_reference_lines, content>>

\* parser.py:404-405 and 410-416
FormulaClose(l) ==
    /\ Scan(l, "formula")
    /\ facts[l].ln = "[/FORMULA]"
    /\ branch' = "formula_close"
    /\ content' = AddNode(content, current_chapter, FormulaNode(blk))
    /\ blk' = NoBlock
    /\ pc' = "loop"
    /\ UNCHANGED <<gen_vars, returned, fam, facts, image_files, eof, current_section, current_chapter,
                   current_paragraph, references_buffer, current_reference_lines>>

\* parser.py:402 and 410-416: the scan runs off the end of the text
FormulaEnd ==
    /\ pc = "formula"
    /\ Len(lines) <= i
    /\ eof' = TRUE
    /\ branch' = "formula_end"
    /\ content' = AddNode(content, current_chapter, FormulaNode(blk))
    /\ blk' = NoBlock
    /\ i' = i + 1
    /\ pc' = "loop"
    /\ UNCHANGED <<gen_vars, returned, fam, facts, image_files, lines, line, current_section, current_chapter,
                   current_paragraph, references_buffer, current_reference_lines>>

\* parser.py:418-430
PlainText(l) ==
    /\ Iteration(l, "text")
    /\ lines' = Drawn(l)
    /\ i' = i + 1
    /\ LET sec == SectionAfterBodyTest(l)
       IN  current_paragraph' =
             IF \/ sec \in {"abstract", "abstract_en", "acknowledgements", "appendix"}
                \/ (sec = "body" /\ current_chapter # 0)
               THEN Append(current_paragraph, facts[l].ln)
               ELSE current_paragraph
    /\ current_section' = SectionAfterBodyTest(l)
    /\ UNCHANGED <<gen_vars, returned, fam, facts, image_files, eof, pc, current_chapter, references_buffer,
                   current_reference_lines, blk, content>>

\* parser.py:60 and 432-455: the loop ends, the buffers are flushed, the references built
Finish ==
    /\ pc = "loop"
    /\ i >= 1
    /\ Len(lines) <= i
    /\ eof' = TRUE
    /\ pc' = "done"
    /\ branch' = "final"
    /\ LET flushed == IF current_paragraph # <<>>
                        THEN StoreBySection(content, current_section, current_chapter,
                                            ParaText(current_paragraph))
                        ELSE content
           buffer == CloseReferenceEntry(references_buffer, current_reference_lines)
       IN  /\ content' = [flushed EXCEPT !.references = BuildReferencesList(buffer)]
           /\ references_buffer' = buffer
    /\ returned' = Append(returned, content')
    /\ UNCHANGED <<gen_vars, fam, facts, image_files, lines, i, line, current_section, current_chapter,
                   current_paragraph, current_reference_lines, blk>>

Next ==
    \/ \E l \in LinesOf(fam) : BlankLine(l)
    \/ \E l \in LinesOf(fam) : TitleLine(l)
    \/ \E l \in LinesOf(fam) : AbstractMarker(l)
    \/ \E l \in LinesOf(fam) : KeywordsLine(l)
    \/ \E l \in LinesOf(fam) : AbstractEnMarker(l)
    \/ \E l \in LinesOf(fam) : KeywordsEnLine(l)
    \/ \E l \in LinesOf(fam) : BodyMarker(l)
    \/ \E l \in LinesOf(fam) : ReferencesHeader(l)
    \/ \E l \in LinesOf(fam) : ReferencesClose(l)
    \/ \E l \in LinesOf(fam) : ReferenceLine(l)
    \/ \E l \in LinesOf(fam) : SectionHeader(l, "acknowledgements")
    \/ \E l \in LinesOf(fam) : SectionClose(l, "acknowledgements_close", "acknowledgements")
    \/ \E l \in LinesOf(fam) : SectionHeader(l, "appendix")
    \/ \E l \in LinesOf(fam) : SectionClose(l, "appendix_close", "appendix")
    \/ \E l \in LinesOf(fam) : ChapterHeading(l)
    \/ \E l \in LinesOf(fam) : SubHeading(l, "heading2", facts[l].match_h2)
    \/ \E l \in LinesOf(fam) : SubHeading(l, "heading3", facts[l].match_h3)
    \/ \E l \in LinesOf(fam) : FigureBlock(l)
    \/ \E l \in LinesOf(fam) : BlockSkipped(l)
    \/ \E l \in LinesOf(fam) : TableOpen(l)
    \/ \E l \in LinesOf(fam) : TableLine(l)
    \/ \E l \in LinesOf(fam) : TableClose(l)
    \/ \E l \in LinesOf(fam) : FormulaOpen(l)
    \/ \E l \in LinesOf(fam) : FormulaLine(l)
    \/ \E l \in LinesOf(fam) : FormulaClose(l)
    \/ \E l \in LinesOf(fam) : PlainText(l)
    \/ TableEnd
    \/ FormulaEnd
    \/ Finish

Spec == Init /\ [][Next]_vars

\* the same with the position and the tree set and the other locals left as the call
\* before has left them
StaleLocals ==
    /\ i' = 0
    /\ content' = EmptyContent
    /\ UNCHANGED <<current_section, current_chapter, current_paragraph, references_buffer,
                   current_reference_lines, blk>>

\* the locals of parse_text as lines 36-59 set them
FreshLocals ==
    /\ i' = 0
    /\ current_section' = NoneV
    /\ current_chapter' = 0
    /\ current_paragraph' = <<>>
    /\ references_buffer' = <<>>
    /\ current_reference_lines' = <<>>
    /\ blk' = NoBlock
    /\ content' = EmptyContent

\* a second call of parse_text with the same text and the same image directory, on the
\* instance the first call has used: the call reads self.image_dir, and no call assigns
\* an attribute of the instance
ParseAgain ==
    /\ pc = "done"
    /\ Len(returned) = 1
    /\ pc' = "loop"
    /\ line' = ""
    /\ branch' = "start"
    /\ FreshLocals
    /\ UNCHANGED <<gen_vars, returned, fam, facts, image_files, lines, eof>>

SpecAgain == Init /\ [][Next \/ ParseAgain]_vars

(* ------------------------------------------------------------------ *)
(* USTCFormatter: anchors, links and numbering fields                  *)
(* ------------------------------------------------------------------ *)
\* Characters of the formatter's output, which no parser input holds

\* SPECIAL_SECTION_BOOKMARKS
SpecialSectionBookmarks ==
    [references |-> "_Section_References",
     acknowledgements |-> "_Section_Acknowledgements",
     appendix |-> "_Section_Appendix"]

\* the number templates used when the style configuration names none, split at the
\* placeholders as re.split(r'(\{chapter\}|\{seq\}|\{index\})', format_template) does
\* "G" stands for U+56FE (the figure label), "B" for U+8868 (the table label)
NumberFormat ==
    [figure  |-> <<"G", "{chapter}", ".", "{seq}">>,
     table   |-> <<"B", "{chapter}", ".", "{seq}">>,
     formula |-> <<"(", "{chapter}", ".", "{seq}", ")">>]

\* a variant that names the targets by the bracket numbers of the source
PrepareReferenceTargetsByOriginal(f, references) ==
    [f EXCEPT !.references_data = references,
              !.reference_targets =
                  [n \in {references[idx].original_index :
                             idx \in {k \in 1..Len(references) :
                                         ToString(references[k].original_index)
                                           # ToString(NoneV)}} |->
                      [bookmark |-> "_Reference_" \o ToString(n)]]]

\* USTCFormatter._prepare_reference_targets
PrepareReferenceTargets(f, references) ==
    [f EXCEPT !.references_data = references,
              !.reference_targets =
                  [idx \in 1..Len(references) |->
                      [bookmark |-> "_Reference_" \o ToString(idx)]]]

\* USTCFormatter._add_bookmark_to_paragraph, with _get_next_bookmark_id
AddBookmarkToParagraph(f, bookmark_name) ==
    [f EXCEPT !.bookmark_id = @ + 1,
              !.doc.bookmarks = Append(@, [id |-> f.bookmark_id + 1, name |-> bookmark_name])]

\* USTCFormatter._add_internal_reference_link
AddInternalReferenceLink(f, paragraph, text, bookmark_name, bookmark_name_for_location) ==
    LET linked == [f EXCEPT !.doc.links =
                       Append(@, [paragraph |-> paragraph, text |-> text,
                                  anchor |-> bookmark_name,
                                  location |-> bookmark_name_for_location])]
    IN  IF bookmark_name_for_location # NoneV
          THEN [linked EXCEPT !.bookmark_id = @ + 1,
                              !.doc.bookmarks =
                                  Append(@, [id |-> f.bookmark_id + 1,
                                             name |-> bookmark_name_for_location])]
          ELSE linked

\* USTCFormatter._append_text_run: "if not text: return", else a run holding text
AppendTextRun(f, paragraph, text) ==
    IF text = "" THEN f
    ELSE [f EXCEPT !.doc.runs = Append(@, [paragraph |-> paragraph, text |-> text,
                                           seq |-> NoneV])]

\* a backlink anchor for every citation, first or not
AppendCitationRunEveryTime(f, paragraph, citation_number) ==
    IF citation_number \notin DOMAIN f.reference_targets
      THEN AppendTextRun(f, paragraph, "[" \o ToString(citation_number) \o "]")
    ELSE LET bookmark_name == "_Citation_" \o ToString(citation_number)
         IN  AddInternalReferenceLink(
                 [f EXCEPT !.reference_backlinks = (citation_number :> bookmark_name) @@ @],
                 paragraph, "[" \o ToString(citation_number) \o "]",
                 f.reference_targets[citation_number].bookmark, bookmark_name)

\* USTCFormatter._append_citation_run (a citation without target is a plain text run)
AppendCitationRun(f, paragraph, citation_number) ==
    IF citation_number \notin DOMAIN f.reference_targets
      THEN AppendTextRun(f, paragraph, "[" \o ToString(citation_number) \o "]")
    ELSE LET first == citation_number \notin DOMAIN f.reference_backlinks
             bookmark_name == IF first THEN "_Citation_" \o ToString(citation_number)
                              ELSE NoneV
             g == IF first
                    THEN [f EXCEPT !.reference_backlinks =
                                       (citation_number :> bookmark_name) @@ @]
                    ELSE f
         IN  AddInternalReferenceLink(g, paragraph,
                                      "[" \o ToString(citation_number) \o "]",
                                      f.reference_targets[citation_number].bookmark,
                                      bookmark_name)

\* the loop of _add_text_with_citations over the matches of CITATION_PATTERN: text is
\* scanned from position k on, last_index (1-based here) is where the pending plain text
\* starts
RECURSIVE AppendCitationRuns(_, _, _, _, _)
AppendCitationRuns(f, paragraph, text, last_index, k) ==
    IF k > Len(text)
      THEN AppendTextRun(f, paragraph, From(text, last_index))
    ELSE LET n == RunLen(text, k + 1, Digits)
         IN  IF Char(text, k) = "[" /\ n >= 1 /\ Char(text, k + n + 1) = "]"
               THEN AppendCitationRuns(
                        AppendCitationRun(
                            AppendTextRun(f, paragraph, SubSeq(text, last_index, k - 1)),
                            paragraph, ToInt(SubSeq(text, k + 1, k + n))),
                        paragraph, text, k + n + 2, k + n + 2)
               ELSE AppendCitationRuns(f, paragraph, text, last_index, k + 1)

\* USTCFormatter._add_text_with_citations
AddTextWithCitations(f, paragraph, text) ==
    IF text = "" THEN f ELSE AppendCitationRuns(f, paragraph, text, 1, 1)

\* the position of the first match of CITATION_PATTERN in text, from position k on, whose
\* digits int() refuses; 0 when there is none
RECURSIVE CitationRaisesAt(_, _)
CitationRaisesAt(text, k) ==
    IF k > Len(text) THEN 0
    ELSE LET n == RunLen(text, k + 1, Digits)
         IN  IF Char(text, k) = "[" /\ n >= 1 /\ Char(text, k + n + 1) = "]"
               THEN IF n > MaxStrDigits THEN k ELSE CitationRaisesAt(text, k + n + 2)
               ELSE CitationRaisesAt(text, k + 1)

\* paragraph.add_run(text), for the runs of a number
AddRun(f, paragraph, text) ==
    [f EXCEPT !.doc.runs = Append(@, [paragraph |-> paragraph, text |-> text, seq |-> NoneV])]

\* USTCFormatter._insert_seq_field: a run holding the field " SEQ seq_name \* ARABIC "
InsertSeqField(f, paragraph, seq_type, chapter_num, chapter_based) ==
    LET seq_name == IF ~chapter_based \/ chapter_num = NoneV THEN seq_type
                    ELSE seq_type \o "_" \o chapter_num
    IN  [f EXCEPT !.doc.runs = Append(@, [paragraph |-> paragraph, text |-> "",
                                          seq |-> seq_name])]

\* USTCFormatter._render_seq_template
RECURSIVE RenderSeqTemplate(_, _, _, _, _, _)
RenderSeqTemplate(f, paragraph, tokens, seq_type, chapter_num, chapter_based) ==
    IF tokens = <<>> THEN f
    ELSE LET token == tokens[1]
             g == IF token = "" THEN f
                  ELSE IF token = "{chapter}"
                    THEN (IF chapter_num # NoneV THEN AddRun(f, paragraph, chapter_num)
                          ELSE f)
                  ELSE IF token \in {"{seq}", "{index}"}
                    THEN InsertSeqField(f, paragraph, seq_type, chapter_num, chapter_based)
                  ELSE AddRun(f, paragraph, token)
         IN  RenderSeqTemplate(g, paragraph, Tail(tokens), seq_type, chapter_num,
                               chapter_based)

\* USTCFormatter._add_chapter_based_seq_field; the templates are never empty, so the
\* branch without template is not taken
AddChapterBasedSeqField(f, paragraph, seq_type, chapter_num, format_template, chapter_based) ==
    RenderSeqTemplate(f, paragraph, format_template, seq_type, chapter_num, chapter_based)

\* USTCFormatter._add_figure: the number of the caption paragraph
AddFigureNumber(f, paragraph, figure_data) ==
    AddChapterBasedSeqField(f, paragraph, "Figure",
                            ResolveChapterNumber(figure_data.number, "1"),
                            NumberFormat.figure, TRUE)

\* USTCFormatter._add_table: the number of the caption paragraph
AddTableNumber(f, paragraph, table_data) ==
    AddChapterBasedSeqField(f, paragraph, "Table",
                            ResolveChapterNumber(table_data.number, "1"),
                            NumberFormat.table, TRUE)

\* USTCFormatter._add_formula: nothing for a formula without a non-blank line, else
\* the number on the last line
AddFormulaNumber(f, paragraph, formula_data) ==
    LET formula_lines == StripNonEmpty(Split(formula_data.content, {"\n"}))
    IN  IF formula_lines = <<>> THEN f
        ELSE RenderSeqTemplate(f, paragraph, NumberFormat.formula, "Equation",
                               ResolveChapterNumber(formula_data.number, "1"), TRUE)

\* the loop of _generate_references over the entries idx.. (formatter.py:901-937);
\* st holds the formatter and the reference list, whose texts the loop overwrites
RECURSIVE ReferenceEntries(_, _)
ReferenceEntries(st, idx) ==
    IF idx > Len(st.references) THEN st
    ELSE LET f == st.formatter
             text == SanitizeReferenceText(st.references[idx].text)
             detail_text == IF text # "" THEN " " \o text ELSE ""
             linked == IF /\ detail_text # ""
                          /\ idx \in DOMAIN f.reference_backlinks
                          /\ f.reference_backlinks[idx] # ""
                        THEN AddInternalReferenceLink(f, <<"reference", idx>>, detail_text,
                                                      f.reference_backlinks[idx], NoneV)
                        ELSE f
             marked == IF idx \in DOMAIN f.reference_targets
                         THEN AddBookmarkToParagraph(linked,
                                                     f.reference_targets[idx].bookmark)
                         ELSE linked
         IN  ReferenceEntries([formatter |-> marked,
                               references |-> [st.references EXCEPT ![idx].text = text]],
                              idx + 1)

\* the anchors of the table of contents for the items of one chapter (formatter.py:779-824)
RECURSIVE TocHeadings(_)
TocHeadings(items) ==
    IF items = <<>> THEN <<>>
    ELSE (IF items[1].type \in {"heading2", "heading3"}
            THEN <<"_Heading_" \o DotToUnderscore(items[1].number)>>
            ELSE <<>>) \o TocHeadings(Tail(items))

\* the anchors of the table of contents for the chapters (formatter.py:755-824)
RECURSIVE TocChapters(_)
TocChapters(chapters) ==
    IF chapters = <<>> THEN <<>>
    ELSE <<"_Chapter_" \o ToString(chapters[1].number)>>
         \o TocHeadings(chapters[1].content) \o TocChapters(Tail(chapters))

\* special_sections_for_toc of generate (formatter.py:466-477)
SpecialSectionsForToc(c) ==
    (IF c.references # <<>> THEN <<SpecialSectionBookmarks.references>> ELSE <<>>)
    \o (IF c.acknowledgements # <<>> THEN <<SpecialSectionBookmarks.acknowledgements>>
        ELSE <<>>)
    \o (IF c.appendix # <<>> THEN <<SpecialSectionBookmarks.appendix>> ELSE <<>>)

\* the part of generate that runs after the one at hand (formatter.py:537-565)
After(c, part) ==
    IF part = "toc" /\ c.chapters # <<>> THEN "chapter"
    ELSE IF part \in {"toc", "body"} /\ c.references # <<>> THEN "references"
    ELSE IF part \in {"toc", "body", "references"} /\ c.acknowledgements # <<>>
        THEN "acknowledgements"
    ELSE IF c.appendix # <<>> THEN "appendix"
    ELSE "save"

(* ------------------------------------------------------------------ *)
(* The trees generate is called with                                   *)
(* ------------------------------------------------------------------ *)
MaxEntries == 4    \* most chapters and chapter items of a tree, together

ChapterEntry(number, title) ==
    [type |-> "chapter", number |-> number, title |-> title, content |-> <<>>]

Heading(tag, number, text) == [type |-> tag, number |-> number, text |-> text]

\* The chapters and items the trees of a family are made of, as parse_text builds them.
TreeEntries ==
    [numbering |-> <<ChapterEntry(1, "A"), ChapterEntry(2, "B"),
                     FigureNode({}, "1-1", "cap"), FigureNode({}, "2-1", "cap | src"),
                     TableNode([number |-> "1-1", caption |-> "cap", source |-> NoneV,
                                body |-> <<"a | b">>]),
                     FormulaNode([NoBlock EXCEPT !.number = "1-1", !.body = <<"E mc2">>]),
                     FormulaNode([NoBlock EXCEPT !.number = "1-2"])>>,
     anchors   |-> <<ChapterEntry(1, "A"), ChapterEntry(1, "B"), ChapterEntry(2, "C"),
                     Heading("heading2", "1.1", "Background"),
                     Heading("heading3", "1.1.1", "Detail"),
                     Paragraph("see [1]")>>,
     citations |-> <<ChapterEntry(1, "A"),
                     Paragraph("see [1] and [1]"), Paragraph("x [2] [3]"),
                     Paragraph("[2][0]"), Heading("heading2", "1.1", "on [1]")>>,
     missing   |-> <<ChapterEntry(1, "A"),
                     Paragraph("see [0] and [7]"), Paragraph("[2] then [1]"),
                     Paragraph("[1] big [" \o Rep("1", MaxStrDigits + 1) \o "]")>>]

\* the references_buffer values the reference list of a tree is built from
ReferenceBuffers ==
    [numbering |-> {<<>>},
     anchors   |-> {<<>>, <<"[7] A", "B">>},
     citations |-> {<<>>, <<"[7] A">>, <<"[7] A , b", "http://u">>},
     missing   |-> {<<>>, <<"[7] A">>}]

\* the acknowledgements and the appendix of a tree
ClosingSections ==
    [numbering |-> {<<>>},
     anchors   |-> {<<>>, <<"thanks">>},
     citations |-> {<<>>},
     missing   |-> {<<>>}]

TreeFamilies == DOMAIN TreeEntries

\* the sequences over S of length at most n
RECURSIVE SeqsUpTo(_, _)
SeqsUpTo(S, n) ==
    IF n = 0 THEN {<<>>}
    ELSE LET shorter == SeqsUpTo(S, n - 1)
         IN  shorter \cup {Append(q, x) : q \in shorter, x \in S}

\* the chapter list made of the entries picked by q: an item goes to the last chapter
RECURSIVE TreeChapters(_, _, _)
TreeChapters(entries, q, chapters) ==
    IF q = <<>> THEN chapters
    ELSE LET e == entries[q[1]]
         IN  IF e.type = "chapter"
               THEN TreeChapters(entries, Tail(q),
                                 Append(chapters, [number |-> e.number, title |-> e.title,
                                                   content |-> <<>>]))
               ELSE TreeChapters(entries, Tail(q),
                                 [chapters EXCEPT ![Len(chapters)].content = Append(@, e)])

\* the picks that start with a chapter, as every item of a tree lies in a chapter
EntryPicks(f) ==
    {q \in SeqsUpTo(1..Len(TreeEntries[f]), MaxEntries) :
        q = <<>> \/ TreeEntries[f][q[1]].type = "chapter"}

\* the trees of family f made of the picks qs
TreesOf(f, qs) ==
    {[EmptyContent EXCEPT
         !.title = "T",
         !.chapters = TreeChapters(TreeEntries[f], q, <<>>),
         !.references = BuildReferencesList(buffer),
         !.acknowledgements = ack,
         !.appendix = app] :
       q \in qs, buffer \in ReferenceBuffers[f],
       ack \in ClosingSections[f], app \in ClosingSections[f]}

\* the trees of family f
Trees(f) == TreesOf(f, EntryPicks(f))

\* the state in which generate is called on a freshly constructed formatter
InitGen ==
    /\ fam \in TreeFamilies
    /\ facts = <<>>
    /\ image_files = {}
    /\ lines = <<>>
    /\ eof = TRUE
    /\ pc = "done"
    /\ i = 0
    /\ line = ""
    /\ branch = "final"
    /\ current_section = NoneV
    /\ current_chapter = 0
    /\ current_paragraph = <<>>
    /\ references_buffer = <<>>
    /\ current_reference_lines = <<>>
    /\ blk = NoBlock
    /\ content \in Trees(fam)
    /\ gen_pc = "idle"
    /\ chapter_idx = 0
    /\ item_idx = 0
    /\ formatter = ResetDocument
    /\ returned = <<>>
    /\ saved = <<>>
    /\ output_path = RunnerOutputPath
    /\ disk_files = {}

parse_vars == <<fam, facts, image_files, lines, eof, pc, i, line, branch, current_section,
                current_chapter, current_paragraph, references_buffer,
                current_reference_lines, blk>>

(* ------------------------------------------------------------------ *)
(* generate: one action per part of the document                       *)
(* ------------------------------------------------------------------ *)
\* formatter.py:412-516, 518-535: the reset, the reference targets and the abstracts,
\* which hold no anchor, link or number
GenerateStart ==
    /\ gen_pc = "idle"
    /\ \E include_toc \in BOOLEAN :
         gen_pc' = IF include_toc /\ content.chapters # <<>> THEN "toc"
                   ELSE After(content, "toc")
    /\ formatter' = IF content.references # <<>>
                      THEN PrepareReferenceTargets(ResetFormatter(formatter),
                                                   content.references)
                      ELSE [ResetFormatter(formatter) EXCEPT !.reference_targets = <<>>,
                                                             !.references_data = <<>>]
    /\ chapter_idx' = 0
    /\ item_idx' = 0
    /\ disk_files' = RemoveOldDocx(disk_files, output_path)
    /\ UNCHANGED <<parse_vars, returned, saved, output_path, content>>

\* formatter.py:517 and _generate_toc
GenerateToc ==
    /\ gen_pc = "toc"
    /\ formatter' = [formatter EXCEPT !.doc.toc =
                        @ \o TocChapters(content.chapters) \o SpecialSectionsForToc(content)]
    /\ gen_pc' = After(content, "toc")
    /\ UNCHANGED <<parse_vars, returned, saved, output_path, disk_files, content, chapter_idx, item_idx>>

\* the chapter and the item _generate_body / _generate_chapter are at
Chapter == content.chapters[chapter_idx + 1]
Item == Chapter.content[item_idx + 1]
ItemParagraph == <<"body", chapter_idx, item_idx>>

\* the loops of _generate_body and _generate_chapter move on, from item at of the chapter
Advance(at) ==
    IF at < Len(Chapter.content)
      THEN /\ gen_pc' = "items"
           /\ item_idx' = at
           /\ chapter_idx' = chapter_idx
    ELSE IF chapter_idx + 1 < Len(content.chapters)
      THEN /\ gen_pc' = "chapter"
           /\ item_idx' = 0
           /\ chapter_idx' = chapter_idx + 1
    ELSE /\ gen_pc' = After(content, "body")
         /\ item_idx' = item_idx
         /\ chapter_idx' = chapter_idx

\* USTCFormatter._generate_chapter up to the loop over the items (formatter.py:1115-1146)
GenerateChapter ==
    /\ gen_pc = "chapter"
    /\ LET chapter_num == IF "number" \in DOMAIN Chapter THEN Chapter.number
                          ELSE chapter_idx + 1
       IN  formatter' = AddBookmarkToParagraph(formatter,
                                               "_Chapter_" \o ToString(chapter_num))
    /\ Advance(0)
    /\ UNCHANGED <<parse_vars, returned, saved, output_path, disk_files, content>>

\* one turn of the loop over the items, for an item of the given type
ItemOf(type) ==
    /\ gen_pc = "items"
    /\ Item.type = type
    /\ Advance(item_idx + 1)
    /\ UNCHANGED <<parse_vars, returned, saved, output_path, disk_files, content>>

\* USTCFormatter._add_paragraph
AddParagraph ==
    /\ gen_pc = "items"
    /\ Item.type = "paragraph"
    /\ LET at == CitationRaisesAt(Item.text, 1)
       IN  IF at = 0
             THEN /\ formatter' = AddTextWithCitations(formatter, ItemParagraph, Item.text)
                  /\ Advance(item_idx + 1)
             ELSE \* int(match.group(1)) raises ValueError after the plain text run
                  /\ formatter' = AddTextWithCitations(formatter, ItemParagraph,
                                                       SubSeq(Item.text, 1, at - 1))
                  /\ gen_pc' = "raised"
                  /\ UNCHANGED <<chapter_idx, item_idx>>
    /\ UNCHANGED <<parse_vars, returned, saved, output_path, disk_files, content>>

\* USTCFormatter._add_heading2
AddHeading2 ==
    /\ ItemOf("heading2")
    /\ formatter' = AddBookmarkToParagraph(formatter,
                                           "_Heading_" \o DotToUnderscore(Item.number))

\* USTCFormatter._add_heading3
AddHeading3 ==
    /\ ItemOf("heading3")
    /\ formatter' = AddBookmarkToParagraph(formatter,
                                           "_Heading_" \o DotToUnderscore(Item.number))

\* USTCFormatter._add_figure
AddFigure ==
    /\ ItemOf("figure")
    /\ formatter' = AddFigureNumber(formatter, ItemParagraph, Item)

\* USTCFormatter._add_table
AddTable ==
    /\ ItemOf("table")
    /\ formatter' = AddTableNumber(formatter, ItemParagraph, Item)

\* USTCFormatter._add_formula
AddFormula ==
    /\ ItemOf("formula")
    /\ formatter' = AddFormulaNumber(formatter, ItemParagraph, Item)

\* USTCFormatter._generate_references
GenerateReferences ==
    /\ gen_pc = "references"
    /\ LET titled == AddBookmarkToParagraph(formatter, SpecialSectionBookmarks.references)
           st == ReferenceEntries([formatter |-> titled, references |-> content.references],
                                  1)
       IN  /\ formatter' = [st.formatter EXCEPT !.references_data = st.references]
           /\ content' = [content EXCEPT !.references = st.references]
    /\ gen_pc' = After(content, "references")
    /\ UNCHANGED <<parse_vars, returned, saved, output_path, disk_files, chapter_idx, item_idx>>

\* a variant that leaves the section title without an anchor
RenderCustomSectionUnmarked(f, paragraphs, bookmark_name) == f

\* USTCFormatter._render_custom_section: the anchor of the section title
RenderCustomSection(f, paragraphs, bookmark_name) ==
    IF paragraphs = <<>> THEN f
    ELSE IF bookmark_name # "" THEN AddBookmarkToParagraph(f, bookmark_name)
    ELSE f

\* USTCFormatter._generate_acknowledgements
GenerateAcknowledgements ==
    /\ gen_pc = "acknowledgements"
    /\ formatter' = RenderCustomSection(formatter, content.acknowledgements,
                                        SpecialSectionBookmarks.acknowledgements)
    /\ gen_pc' = After(content, "acknowledgements")
    /\ UNCHANGED <<parse_vars, returned, saved, output_path, disk_files, content, chapter_idx, item_idx>>

\* USTCFormatter._generate_appendix
GenerateAppendix ==
    /\ gen_pc = "appendix"
    /\ formatter' = RenderCustomSection(formatter, content.appendix,
                                        SpecialSectionBookmarks.appendix)
    /\ gen_pc' = "save"
    /\ UNCHANGED <<parse_vars, returned, saved, output_path, disk_files, content, chapter_idx, item_idx>>

\* self.doc.save(output_path), which raises when the file cannot be written
Save ==
    /\ gen_pc = "save"
    /\ IF /\ Dirname(output_path) \in ExistingDirs
          /\ [path |-> output_path, locked |-> TRUE] \notin disk_files
         THEN /\ gen_pc' = "saved"
              /\ saved' = Append(saved, formatter)
              /\ disk_files' = disk_files \cup {[path |-> output_path, locked |-> FALSE]}
         ELSE /\ gen_pc' = "raised"
              /\ UNCHANGED <<saved, disk_files>>
    /\ UNCHANGED <<parse_vars, returned, output_path, content, chapter_idx, item_idx,
                   formatter>>

NextGen ==
    \/ GenerateStart
    \/ GenerateToc
    \/ GenerateChapter
    \/ AddParagraph
    \/ AddHeading2
    \/ AddHeading3
    \/ AddFigure
    \/ AddTable
    \/ AddFormula
    \/ GenerateReferences
    \/ GenerateAcknowledgements
    \/ GenerateAppendix
    \/ Save

SpecGen == InitGen /\ [][NextGen]_vars

\* a second call of generate on the instance that has saved a document, with the tree
\* the first call was given
GenerateAgain ==
    /\ gen_pc = "saved"
    /\ Len(saved) = 1
    /\ gen_pc' = "idle"
    /\ UNCHANGED <<parse_vars, returned, saved, output_path, disk_files, content, chapter_idx, item_idx, formatter>>

SpecGenAgain == InitGen /\ [][NextGen \/ GenerateAgain]_vars

(* ------------------------------------------------------------------ *)
(* generate and the output directory                                   *)
(* ------------------------------------------------------------------ *)
\* the output paths generate is called with: the one of the entry script, a bare file
\* name, and a path in a directory that does not exist
OutputPaths == {RunnerOutputPath, "e5thesis.docx", "missing/e5thesis.docx"}

\* the files that may be on disk when generate is called
OldFiles ==
    {[path |-> "output/old.docx", locked |-> FALSE],
     [path |-> "output/open.docx", locked |-> TRUE],
     [path |-> "output/notes.txt", locked |-> FALSE],
     [path |-> "output/e5thesis.docx", locked |-> FALSE],
     [path |-> "old.docx", locked |-> FALSE]}

\* the picks of the trees generate is called with here: one of every kind of node
OutputPicks ==
    [numbering |-> {<<1, 3, 5, 6>>},
     anchors   |-> {<<>>, <<1, 4, 5, 6>>},
     citations |-> {<<1, 2>>},
     missing   |-> {<<1, 4>>}]

\* the state in which generate is called with some output path and some files on disk
InitFiles ==
    /\ fam \in TreeFamilies
    /\ facts = <<>>
    /\ image_files = {}
    /\ lines = <<>>
    /\ eof = TRUE
    /\ pc = "done"
    /\ i = 0
    /\ line = ""
    /\ branch = "final"
    /\ current_section = NoneV
    /\ current_chapter = 0
    /\ current_paragraph = <<>>
    /\ references_buffer = <<>>
    /\ current_reference_lines = <<>>
    /\ blk = NoBlock
    /\ content \in TreesOf(fam, OutputPicks[fam])
    /\ gen_pc = "idle"
    /\ chapter_idx = 0
    /\ item_idx = 0
    /\ formatter = ResetDocument
    /\ returned = <<>>
    /\ saved = <<>>
    /\ output_path \in OutputPaths
    /\ disk_files \in SUBSET OldFiles

SpecFiles == InitFiles /\ [][NextGen]_vars

(* ------------------------------------------------------------------ *)
(* The sanitizer and the numeral converters, applied to drawn inputs   *)
(* ------------------------------------------------------------------ *)
MaxTokens == 4       \* longest reference text, in tokens
MaxNumeralLen == 3   \* longest numeral token, in characters
MaxNumber == 120     \* largest number converted to numeral text

SanitizerTokens == {"a", "1", " ", ".", ",", "-", ")", "http://", Cjk.FwColon}
NumeralChars == CjkNumerals \cup {"1", "x"}

\* the texts made of at most n of the tokens
RECURSIVE TextsOf(_, _)
TextsOf(tokens, n) ==
    IF n = 0 THEN {""}
    ELSE LET shorter == TextsOf(tokens, n - 1)
         IN  shorter \cup {s \o t : s \in shorter, t \in tokens}

ReferenceTexts == TextsOf(SanitizerTokens, MaxTokens)
NumeralTokens == TextsOf(NumeralChars, MaxNumeralLen) \ {""}

\* fam tells which function is applied: line holds the text at hand (the text of a
\* reference entry, or the numeral token), lines the texts the entry has held so far,
\* i the number to convert, current_chapter the chapter_num that
\* USTCContentParser._chinese_to_arabic returns and chapter_idx the one of E1Parser
InitFun ==
    /\ fam \in {"sanitize", "round_trip", "token"}
    /\ facts = <<>>
    /\ image_files = {}
    /\ line \in (CASE fam = "sanitize" -> ReferenceTexts
                  [] fam = "round_trip" -> {""}
                  [] fam = "token" -> NumeralTokens)
    /\ lines = <<line>>
    /\ eof = TRUE
    /\ pc = "input"
    /\ i \in (IF fam = "round_trip" THEN 0..MaxNumber ELSE {0})
    /\ branch = "start"
    /\ current_section = NoneV
    /\ current_chapter = 0
    /\ current_paragraph = <<>>
    /\ references_buffer = <<>>
    /\ current_reference_lines = <<>>
    /\ blk = NoBlock
    /\ content = EmptyContent
    /\ gen_pc = "idle"
    /\ chapter_idx = 0
    /\ item_idx = 0
    /\ formatter = ResetDocument
    /\ returned = <<>>
    /\ saved = <<>>
    /\ output_path = RunnerOutputPath
    /\ disk_files = {}

\* formatter.py:911-912 for one entry: the sanitized text is written back into the entry,
\* so that a second generate() over the same tree sanitizes it again
SanitizeEntry ==
    /\ fam = "sanitize"
    /\ pc \in {"input", "sanitized"}
    /\ line' = SanitizeReferenceText(line)
    /\ lines' = Append(lines, line')
    /\ pc' = IF pc = "input" THEN "sanitized" ELSE "sanitized_again"
    /\ UNCHANGED <<fam, facts, image_files, eof, i, branch, current_section, current_chapter,
                   current_paragraph, references_buffer, current_reference_lines, blk,
                   content, gen_vars, returned>>

\* e1 formatter.py:709, 1075: chapter_cn = self._arabic_to_chinese(chapter_num)
ToChinese ==
    /\ fam = "round_trip"
    /\ pc = "input"
    /\ line' = ArabicToChinese(i)
    /\ lines' = Append(lines, line')
    /\ pc' = "chinese"
    /\ UNCHANGED <<fam, facts, image_files, eof, i, branch, current_section, current_chapter,
                   current_paragraph, references_buffer, current_reference_lines, blk,
                   content, gen_vars, returned>>

\* parser.py:239 and e1 parser.py:367: chapter_num = self._chinese_to_arabic(...)
ToArabic ==
    /\ \/ fam = "round_trip" /\ pc = "chinese"
       \/ fam = "token" /\ pc = "input"
    /\ current_chapter' = ChineseToArabic(line)
    /\ chapter_idx' = E1ChineseToArabic(line)
    /\ pc' = "arabic"
    /\ UNCHANGED <<fam, facts, image_files, lines, eof, i, line, branch, current_section,
                   current_paragraph, references_buffer, current_reference_lines, blk,
                   content, gen_pc, item_idx, formatter, returned, saved, output_path,
                   disk_files>>

NextFun ==
    \/ SanitizeEntry
    \/ ToChinese
    \/ ToArabic

SpecFun == InitFun /\ [][NextFun]_vars

(* ------------------------------------------------------------------ *)
(* Claims about parse_text                                             *)
(* ------------------------------------------------------------------ *)
\* C3: the reference entries returned by parse_text carry the index values 1, 2, ..., N
\* in list order, whatever bracket numbers the source lines carry.
C3_ReferenceIndexContiguous ==
    \A k \in DOMAIN content.references : content.references[k].index = k

\* three entries: one without a bracket number, two with the same bracket number 7
C3_Witness ==
    /\ pc = "done"
    /\ Len(content.references) = 3
    /\ content.references[1].original_index = NoneV
    /\ content.references[2].original_index = 7
    /\ content.references[3].original_index = 7

\* the tags of the branches that open a section
SectionOpenTags ==
    {"abstract", "abstract_en", "body", "references", "acknowledgements", "appendix"}

\* C5: a step that reads a section-open marker and changes the section emits the pending
\* fragments into the container of the section that was active when they were read and
\* leaves the paragraph accumulator empty.
C5_MarkerFlushesAccumulator ==
    [][(branch' \in SectionOpenTags /\ current_section' # current_section) =>
         /\ current_paragraph' = <<>>
         /\ content' = IF current_paragraph = <<>> THEN content
                       ELSE StoreBySection(content, current_section, current_chapter,
                                           ParaText(current_paragraph))]_vars

\* the section each explicit section-open marker opens
MarkerSection ==
    [m \in {"[ABSTRACT]", "[ABSTRACT_EN]", "[BODY]", "[REFERENCES]", "[ACKNOWLEDGEMENTS]",
            "[APPENDIX]"} |->
        IF m = "[ABSTRACT]" THEN "abstract"
        ELSE IF m = "[ABSTRACT_EN]" THEN "abstract_en"
        ELSE IF m = "[BODY]" THEN "body"
        ELSE IF m = "[REFERENCES]" THEN "references"
        ELSE IF m = "[ACKNOWLEDGEMENTS]" THEN "acknowledgements"
        ELSE "appendix"]

\* C6: an iteration of the main loop on a section-open marker line sets the state to the
\* marker's section, from every state and at every line position, and stores the marker
\* line neither as the title, nor as reference text, nor as paragraph text.
C6_MarkerOpensSection ==
    [][(pc = "loop" /\ i' > i /\ line' \in DOMAIN MarkerSection) =>
         /\ current_section' = MarkerSection[line']
         /\ content'.title = content.title
         /\ current_reference_lines' = <<>>
         /\ current_paragraph' = <<>>]_vars

\* the close marker of each block directive of the modelled inputs
CloseOf ==
    [d \in {"[FIGURE:1-1]", "[TABLE:1-1]", "[FORMULA:1-1]"} |->
        IF d = "[FIGURE:1-1]" THEN "[/FIGURE]"
        ELSE IF d = "[TABLE:1-1]" THEN "[/TABLE]"
        ELSE "[/FORMULA]"]

\* the positions of lines that hold a block directive after a chapter heading
OpenedAt ==
    {k \in 3..Len(lines) :
        /\ lines[k] \in DOMAIN CloseOf
        /\ \E c \in 2..(k - 1) : facts[lines[c]].match1.ok}

\* the first block directive opened inside a chapter, 0 when there is none
FirstOpen == IF OpenedAt = {} THEN 0 ELSE CHOOSE k \in OpenedAt : \A m \in OpenedAt : k <= m

\* line p follows the first block directive, with no matching close marker in between
InBlock(p) ==
    /\ FirstOpen # 0
    /\ p > FirstOpen
    /\ p <= Len(lines)
    /\ \A m \in (FirstOpen + 1)..(p - 1) : facts[lines[m]].ln # CloseOf[lines[FirstOpen]]

\* C7: every line that follows an opened block directive, up to and including the
\* matching close marker, belongs to the block: the iteration that consumes such a line is
\* not one that emits paragraph text, a heading or a chapter, and the close marker is
\* reached with nothing pending in the paragraph accumulator.
C7_BlockLinesBelongToBlock ==
    (pc = "loop" /\ i >= 1 /\ InBlock(i) /\ facts[lines[i]].ln = CloseOf[lines[FirstOpen]]) =>
        /\ branch \in {"figure", "table_close", "formula_close"}
        /\ current_paragraph = <<>>

\* line l is a section marker, a chapter heading, a heading or a block directive
KeepsItsRole(l) ==
    LET F == facts[l]
    IN  \/ F.abstract \/ F.abstract_en \/ F.body
        \/ F.ref_header \/ F.ack_header \/ F.app_header
        \/ F.match1.ok \/ F.match_h2.ok \/ F.match_h3.ok
        \/ F.fig_prefix \/ F.tbl_prefix \/ F.frm_prefix

\* C8: a block whose close marker is missing is closed at the next block directive,
\* section marker or heading line: such a line is not consumed as a table row or as
\* formula text of the open block.
C8_UnterminatedBlockCloses ==
    (branch \in {"table_line", "formula_line"} /\ i >= 1 /\ i <= Len(lines)) =>
        ~KeepsItsRole(lines[i])

\* C9: parse_text never raises, and every iteration of the main loop and of a block body
\* scan strictly increases the line index.
C9_ParseTextProgress ==
    [][/\ pc' # "raised"
       /\ (pc \in {"loop", "table", "formula"} /\ pc' # "done") => i' > i]_vars

\* the stored text t is not empty and not white space
HasText(t) == Strip(t) # ""

\* C10: every Paragraph node of every chapter and every string of the abstract,
\* abstract_en, acknowledgements and appendix content has non-empty, non-whitespace text.
C10_NoEmptyParagraph ==
    /\ \A c \in DOMAIN content.chapters :
         \A n \in DOMAIN content.chapters[c].content :
            content.chapters[c].content[n].type = "paragraph"
                => HasText(content.chapters[c].content[n].text)
    /\ \A k \in DOMAIN content.abstract.content : HasText(content.abstract.content[k])
    /\ \A k \in DOMAIN content.abstract_en.content : HasText(content.abstract_en.content[k])
    /\ \A k \in DOMAIN content.acknowledgements : HasText(content.acknowledgements[k])
    /\ \A k \in DOMAIN content.appendix : HasText(content.appendix[k])

\* a heading3 line read with nothing pending, after a paragraph and a heading2: the flush
\* of the empty accumulator has appended nothing between the two headings
C10_Witness ==
    /\ branch = "heading3"
    /\ current_chapter # 0
    /\ LET nodes == content.chapters[current_chapter].content
       IN  /\ Len(nodes) = 3
           /\ nodes[1].type = "paragraph"
           /\ nodes[2].type = "heading2"
           /\ nodes[3].type = "heading3"

\* the reference entry that the closed entry text raw yields: the bracket number it starts
\* with and the remainder after the bracket, or no number and the whole entry
EntryOf(raw) ==
    LET n == RunLen(raw, 2, Digits)
    IN  IF MatchBracketNumber(raw)
          THEN [original_index |-> ToInt(SubSeq(raw, 2, n + 1)),
                text |-> Strip(From(raw, n + 3))]
          ELSE [original_index |-> NoneV, text |-> raw]

\* C11: in the references section a line starting with a bracketed number closes the open
\* entry and starts a new one, any other line is appended to the open entry or opens one;
\* each entry of the tree carries the bracket number its text starts with (none otherwise)
\* and the remainder after the bracket (the whole entry when there is no bracket).
C11_ReferenceEntries ==
    /\ [][branch' = "reference_line" /\ pc = "loop" /\ i' > i =>
             IF facts[lines'[i']].bracket
               THEN /\ references_buffer'
                          = CloseReferenceEntry(references_buffer, current_reference_lines)
                    /\ current_reference_lines' = <<line'>>
               ELSE /\ references_buffer' = references_buffer
                    /\ current_reference_lines' = Append(current_reference_lines, line')]_vars
    /\ [](\A k \in DOMAIN content.references :
            LET r == content.references[k]
            IN  /\ ToString(r.original_index) = ToString(EntryOf(r.raw).original_index)
                /\ r.text = EntryOf(r.raw).text)

\* the sections whose containers hold paragraph text
ParagraphSections == {"abstract", "abstract_en", "body", "acknowledgements", "appendix"}

\* C13: at end of input the fragments still held in the paragraph accumulator are emitted
\* as one paragraph into a container of the tree, and the lines still held in the open
\* reference entry are emitted as the last reference entry.
C13_FinalFlushLosesNothing ==
    [][(pc # "done" /\ pc' = "done") =>
         /\ current_paragraph # <<>> =>
                \E sec \in ParagraphSections :
                    /\ [content' EXCEPT !.references = content.references]
                           = StoreBySection(content, sec, current_chapter,
                                            ParaText(current_paragraph))
                    /\ [content' EXCEPT !.references = content.references] # content
         /\ current_reference_lines # <<>> =>
                /\ Len(content'.references) = Len(references_buffer) + 1
                /\ content'.references[Len(content'.references)].raw
                       = Strip(Join(current_reference_lines, " "))]_vars

\* the section close markers
CloseMarkers ==
    {"[/ABSTRACT]", "[/ABSTRACT_EN]", "[/BODY]", "[/REFERENCES]", "[/ACKNOWLEDGEMENTS]",
     "[/APPENDIX]"}

\* C14: an iteration of the main loop on a section close marker emits the pending
\* paragraph into the tree, leaves the accumulator empty and the state None, and does not
\* keep the marker as text of the open reference entry.
C14_CloseMarkerFlushes ==
    [][(pc = "loop" /\ i' > i /\ line' \in CloseMarkers /\ i >= 1) =>
         /\ current_section' = NoneV
         /\ current_paragraph' = <<>>
         /\ current_paragraph # <<>> =>
                \E sec \in ParagraphSections :
                    /\ content' = StoreBySection(content, sec, current_chapter,
                                                 ParaText(current_paragraph))
                    /\ content' # content
         /\ \A k \in DOMAIN current_reference_lines' : current_reference_lines'[k] # line']_vars

\* line p of ls is a body line or the close marker of a block directive of ls: a
\* directive precedes it (the first line is the title) with no matching close marker in
\* between
InDirective(ls, p) ==
    \E d \in 2..(p - 1) :
        /\ ls[d] \in DOMAIN CloseOf
        /\ \A m \in (d + 1)..(p - 1) : facts[ls[m]].ln # CloseOf[ls[d]]

\* C15: while no chapter is open, the body lines and the close marker of a block directive
\* add nothing to the tree: the iteration that reads such a line appends it to no
\* paragraph and creates no chapter.
C15_ChapterlessBlockDropped ==
    [][(pc = "loop" /\ i' = i + 1 /\ current_chapter = 0 /\ InDirective(lines', i')) =>
         /\ current_paragraph' = current_paragraph \/ current_paragraph' = <<>>
         /\ Len(content'.chapters) = Len(content.chapters)]_vars

WithoutLastChapter(c) == [c EXCEPT !.chapters = SubSeq(@, 1, Len(@) - 1)]

\* C23: when a heading-level-1 line is read, the fragments pending in the paragraph
\* accumulator are emitted (into the previously open chapter or the previously active
\* section) and the accumulator is emptied before the new chapter is created, so that
\* the new chapter never receives text read before its heading line.
C23_ChapterHeadingFlushes ==
    [][(branch' = "chapter" /\ i' = i + 1) =>
          /\ current_paragraph' = <<>>
          /\ current_paragraph # <<>> =>
               WithoutLastChapter(content')
                 \in {StoreBySection(content, current_section, current_chapter,
                                     ParaText(current_paragraph)),
                      FlushIntoChapter(content, current_chapter, current_paragraph)} \ {content}
      ]_vars

\* C26: a content node is appended to a chapter only while the section is the body: a
\* step that reads a heading or a block directive in another section (the abstracts,
\* none, the acknowledgements, the appendix) leaves the chapters as they are, the pending
\* text of that section included.
C26_NodesOnlyInBody ==
    [][(/\ Len(content'.chapters) = Len(content.chapters)
        /\ content'.chapters # content.chapters) => current_section = "body"]_vars

\* the lines the reference builder holds, closed entries first, joined as the entries are
ReferenceText == Join(references_buffer \o current_reference_lines, " ")

\* the raw texts of a reference list
Raws(references) == [k \in 1..Len(references) |-> references[k].raw]

\* C27: no line collected by the reference builder is dropped: every step of the loop
\* keeps the lines collected so far, in order, in front of the ones it adds (a references
\* header read again and a marker of another section included), and the raw texts of the
\* entries of the returned tree are these lines, each in one entry, in source order.
C27_NoReferenceLineDropped ==
    [][IF branch' = "final" /\ branch # "final"
         THEN Join(Raws(content'.references), " ") = ReferenceText
         ELSE StartsWith(ReferenceText', ReferenceText)]_vars

\* C29: in the references section a blank line closes the open entry, and the line read
\* next in that section opens a new entry, with or without a leading bracketed number;
\* every closed entry is an entry of the returned tree with a display index of its own,
\* so that no entry spans a blank line.
C29_BlankLineClosesEntry ==
    [][/\ (branch' = "blank" /\ i' = i + 1 /\ current_section = "references") =>
             /\ references_buffer'
                   = CloseReferenceEntry(references_buffer, current_reference_lines)
             /\ current_reference_lines' = <<>>
       /\ (branch = "blank" /\ current_section = "references"
              /\ branch' = "reference_line" /\ i' = i + 1) =>
             /\ current_reference_lines' = <<line'>>
             /\ references_buffer' = references_buffer
       /\ (branch' = "final" /\ branch # "final") =>
             /\ Len(content'.references) = Len(references_buffer')
             /\ \A k \in 1..Len(references_buffer') :
                   /\ content'.references[k].index = k
                   /\ content'.references[k].raw = references_buffer'[k]
      ]_vars

\* a returned tree with two reference entries, the second one made of the line "cont"
\* that followed a blank line after "[7] A"
C29_Witness ==
    /\ pc = "done"
    /\ \E k \in 1..(Len(lines) - 2) :
          lines[k] = "[7] A" /\ lines[k + 1] = "" /\ lines[k + 2] = "cont"
    /\ Len(content.references) = 2
    /\ content.references[1].raw = "[7] A"
    /\ content.references[2].raw = "cont"
    /\ content.references[2].index = 2

\* C24: a keyword line read in Abstract (or AbstractEn) state first emits the pending
\* abstract lines as a paragraph of abstract.content (resp. abstract_en.content), then
\* stores the keyword list and leaves the section with an empty accumulator.
C24_KeywordLineFlushesAbstract ==
    [][(/\ branch' \in {"keywords", "keywords_en"}
        /\ i' = i + 1
        /\ current_section \in {"abstract", "abstract_en"}
        /\ current_paragraph # <<>>) =>
          /\ content'[current_section].content
               = Append(content[current_section].content, ParaText(current_paragraph))
          /\ current_paragraph' = <<>>
          /\ current_section' = NoneV
      ]_vars

\* the figure nodes of the tree
Figures ==
    {node \in UNION {{content.chapters[c].content[k] :
                         k \in DOMAIN content.chapters[c].content} :
                     c \in DOMAIN content.chapters} : node.type = "figure"}

\* the lists parse_text hands to its caller besides the seven sections of the tree (the
\* instance holds image_dir and a dictionary that no method fills)
ExtraLists == {content[key] : key \in DOMAIN content \ DOMAIN EmptyContent}

\* C20: a figure block whose asset cannot be found yields a figure node with path None,
\* and its identifier is recorded in a missing-assets list that the caller can inspect
\* after the parse.
C20_MissingAssetRecorded ==
    \A node \in Figures :
        /\ image_files = {} => node.path = NoneV
        /\ node.path = NoneV =>
             \E list \in ExtraLists : \E k \in DOMAIN list : list[k] = node.number

(* ------------------------------------------------------------------ *)
(* Claims about generate                                               *)
(* ------------------------------------------------------------------ *)
Chapters == content.chapters
Bookmarks == formatter.doc.bookmarks
Runs == formatter.doc.runs

BlockTypes == {"figure", "table", "formula"}

\* the value Word shows for the SEQ field of run r: the fields of one identifier count
\* 1, 2, ... in document order
SeqValue(r) == Cardinality({k \in 1..r : Runs[k].seq = Runs[r].seq})

\* the number of paragraph p as the reader sees it: its runs from run r on, fields valued
RECURSIVE Rendered(_, _)
Rendered(p, r) ==
    IF r > Len(Runs) THEN ""
    ELSE (IF Runs[r].paragraph # p THEN ""
          ELSE IF Runs[r].seq # NoneV THEN ToString(SeqValue(r))
          ELSE Runs[r].text) \o Rendered(p, r + 1)

\* a number template with chapter and seq filled in
RECURSIVE Filled(_, _, _)
Filled(tokens, chapter, seq) ==
    IF tokens = <<>> THEN ""
    ELSE (IF tokens[1] = "{chapter}" THEN chapter
          ELSE IF tokens[1] = "{seq}" THEN seq
          ELSE tokens[1]) \o Filled(Tail(tokens), chapter, seq)

NumberFormatOf(type) == NumberFormat[type]

\* the position of item j of chapter c among the items of its type in that chapter
Ordinal(c, j) ==
    Cardinality({m \in 1..j : Chapters[c].content[m].type = Chapters[c].content[j].type})

\* the item is a block that generate gives a number
Numbered(item) ==
    /\ item.type \in BlockTypes
    /\ item.type = "formula" => StripNonEmpty(Split(item.content, {"\n"})) # <<>>

\* C1: in the generated document the k-th figure, table or formula of a chapter carries
\* the number made of that chapter's number and k, whatever its raw identifier is and
\* whatever other chapters hold.
C1_ChapterScopedNumbers ==
    gen_pc = "saved" =>
        \A c \in 1..Len(Chapters) : \A j \in 1..Len(Chapters[c].content) :
            Numbered(Chapters[c].content[j]) =>
                Rendered(<<"body", c - 1, j - 1>>, 1)
                    = Filled(NumberFormatOf(Chapters[c].content[j].type),
                             ToString(Chapters[c].number), ToString(Ordinal(c, j)))

\* C2: no two bookmarks of one generate run carry the same name.
C2_UniqueAnchorNames ==
    \A a \in 1..Len(Bookmarks) : \A b \in 1..Len(Bookmarks) :
        a # b => Bookmarks[a].name # Bookmarks[b].name

\* the links made for citations, in document order
IsCitationLink(link) == link.paragraph[1] = "body"
CitationLinks == SelectSeq(formatter.doc.links, IsCitationLink)

CitationText(n) == "[" \o ToString(n) \o "]"

\* item j of chapter c (both 0-based) has been generated; the paragraph at which generate
\* raised has been generated up to the citation that int() refused
Generated(c, j) ==
    \/ gen_pc \in {"references", "acknowledgements", "appendix", "save", "saved"}
    \/ gen_pc \in {"chapter", "items", "raised"} /\ c < chapter_idx
    \/ gen_pc \in {"items", "raised"} /\ c = chapter_idx /\ j < item_idx
    \/ gen_pc = "raised" /\ c = chapter_idx /\ j = item_idx

\* the text of a paragraph as far as _add_text_with_citations gets
Processed(text) ==
    LET at == CitationRaisesAt(text, 1)
    IN  IF at = 0 THEN text ELSE SubSeq(text, 1, at - 1)

\* the citation numbers of s that have a reference entry
RECURSIVE WithEntry(_)
WithEntry(s) ==
    IF s = <<>> THEN <<>>
    ELSE (IF s[1] \in 1..Len(content.references) THEN <<s[1]>> ELSE <<>>)
         \o WithEntry(Tail(s))

\* the citations with a reference entry in the generated body paragraphs, in document
\* order, from item j of chapter c on (both 1-based)
RECURSIVE CitedFrom(_, _)
CitedFrom(c, j) ==
    IF c > Len(Chapters) THEN <<>>
    ELSE IF j > Len(Chapters[c].content) THEN CitedFrom(c + 1, 1)
    ELSE (IF Chapters[c].content[j].type = "paragraph" /\ Generated(c - 1, j - 1)
            THEN WithEntry(Citations(Processed(Chapters[c].content[j].text)))
            ELSE <<>>) \o CitedFrom(c, j + 1)

Cited == CitedFrom(1, 1)

\* C4: every citation [n] of the body paragraphs that has a reference entry is a link to
\* the anchor of reference entry n; the first one of each n, and no later one, carries
\* the backlink anchor _Citation_n, of which there is exactly one.
C4_OneBacklinkPerCitation ==
    /\ Len(CitationLinks) = Len(Cited)
    /\ \A k \in 1..Len(Cited) :
         LET n == Cited[k]
             first == \A m \in 1..(k - 1) : Cited[m] # n
         IN  /\ CitationLinks[k].text = CitationText(n)
             /\ CitationLinks[k].anchor = "_Reference_" \o ToString(n)
             /\ CitationLinks[k].location
                    = IF first THEN "_Citation_" \o ToString(n) ELSE NoneV
    /\ \A n \in 1..Len(content.references) :
         Cardinality({b \in 1..Len(Bookmarks) :
                         Bookmarks[b].name = "_Citation_" \o ToString(n)})
             = IF \E k \in 1..Len(Cited) : Cited[k] = n THEN 1 ELSE 0

\* a saved document in which reference 1 is cited twice and reference 2 once
C4_Witness ==
    /\ gen_pc = "saved"
    /\ \E k \in 1..Len(Cited) : \E m \in (k + 1)..Len(Cited) :
           Cited[k] = 1 /\ Cited[m] = 1
    /\ \E k \in 1..Len(Cited) : Cited[k] = 2


\* the runs of a paragraph that follow the runs it had before a step
NewRunTexts(before, after) ==
    {after[k].text : k \in (Len(before) + 1)..Len(after)}

\* C12: a citation [n] of body text that has no reference entry n is emitted as plain
\* text: the paragraph step makes no link and no bookmark, leaves the backlink map and the
\* bookmark id counter as they were, and generate does not raise; no link and no backlink
\* anchor of the document is one of a number without entry.
C12_MissingCitationIsPlainText ==
    /\ [][(/\ gen_pc = "items"
           /\ Item.type = "paragraph"
           /\ WithEntry(Citations(Processed(Item.text))) = <<>>) =>
             /\ gen_pc' # "raised"
             /\ formatter'.doc.links = formatter.doc.links
             /\ formatter'.doc.bookmarks = formatter.doc.bookmarks
             /\ formatter'.reference_backlinks = formatter.reference_backlinks
             /\ formatter'.bookmark_id = formatter.bookmark_id
             /\ \A k \in DOMAIN Citations(Processed(Item.text)) :
                    CitationText(Citations(Processed(Item.text))[k])
                        \in NewRunTexts(formatter.doc.runs, formatter'.doc.runs)]_vars
    /\ [](/\ \A k \in DOMAIN CitationLinks :
                \E n \in 1..Len(content.references) :
                    /\ CitationLinks[k].text = CitationText(n)
                    /\ CitationLinks[k].anchor = "_Reference_" \o ToString(n)
           /\ DOMAIN formatter.reference_backlinks \subseteq 1..Len(content.references))

\* C22: generate never reorders, adds or removes chapters, content nodes or reference
\* entries and changes no existing field of a node: every step of a run leaves the tree
\* as it was handed in.
C22_GenerateLeavesTree == [][content' = content]_vars

\* what a run has allocated: the counter, the anchors, the links, the numbered runs, the
\* reference targets and the backlinks
Allocations(f) ==
    <<f.bookmark_id, f.doc.bookmarks, f.doc.links, f.doc.runs, f.reference_targets,
      f.reference_backlinks, f.references_data>>

\* C21: a formatter instance used for a second generate() call produces the anchor ids,
\* reference targets and backlink allocations a fresh instance produces: the counter
\* and the maps are reset at the start of every run, so the second document has the
\* allocations of the first one again (its table of contents depends on include_toc,
\* which each call chooses).
C21_SecondRunAsFresh ==
    (gen_pc = "saved" /\ Len(saved) = 2) => Allocations(saved[2]) = Allocations(saved[1])

\* two documents have been saved, each with bookmarks, citation links and backlinks
C21_Witness ==
    /\ gen_pc = "saved"
    /\ Len(saved) = 2
    /\ saved[2] = formatter
    /\ formatter.bookmark_id >= 3
    /\ formatter.doc.links # <<>>
    /\ DOMAIN formatter.reference_backlinks # {}

\* the bookmarks _generate_references places on reference entries, in document order
IsReferenceBookmark(b) == Len(b.name) > 11 /\ SubSeq(b.name, 1, 11) = "_Reference_"
ReferenceBookmarks == SelectSeq(Bookmarks, IsReferenceBookmark)

\* the backlinks _generate_references makes of reference entries, in document order
IsBacklink(link) == link.paragraph[1] = "reference"
Backlinks == SelectSeq(formatter.doc.links, IsBacklink)

\* generate is past _generate_references
ReferencesGenerated ==
    /\ gen_pc \in {"acknowledgements", "appendix", "save", "saved"}
    /\ content.references # <<>>

\* C25: a citation link [n] exists only for a position n of the reference list and
\* targets _Reference_n, the anchor placed on the n-th entry of the list; its backlink
\* anchor, where it has one, is _Citation_n, which the n-th entry links back to. The
\* names are made of positions only, whatever original_index the entries hold.
C25_CitationLinkedByPosition ==
    /\ \A k \in 1..Len(CitationLinks) :
         \E n \in 1..Len(content.references) :
            /\ CitationLinks[k].text = CitationText(n)
            /\ CitationLinks[k].anchor = "_Reference_" \o ToString(n)
            /\ CitationLinks[k].location \in {NoneV, "_Citation_" \o ToString(n)}
    /\ \A k \in 1..Len(Backlinks) :
         /\ Backlinks[k].anchor = "_Citation_" \o ToString(Backlinks[k].paragraph[2])
         /\ \E m \in 1..Len(CitationLinks) :
               /\ CitationLinks[m].text = CitationText(Backlinks[k].paragraph[2])
               /\ CitationLinks[m].location = Backlinks[k].anchor
    /\ ReferencesGenerated =>
         /\ Len(ReferenceBookmarks) = Len(content.references)
         /\ \A idx \in 1..Len(content.references) :
               ReferenceBookmarks[idx].name = "_Reference_" \o ToString(idx)

\* a saved document of a tree whose only reference entry was numbered [7] in the source
\* and whose body cites [1] and [7]: [1] is a link to that entry, which links back, and
\* [7] is no link
C25_Witness ==
    /\ gen_pc = "saved"
    /\ Len(content.references) = 1
    /\ content.references[1].original_index = 7
    /\ \E c \in 1..Len(Chapters) : \E j \in 1..Len(Chapters[c].content) :
          /\ Chapters[c].content[j].type = "paragraph"
          /\ Chapters[c].content[j].text = "see [0] and [7]"
    /\ \E k \in 1..Len(CitationLinks) :
          /\ CitationLinks[k].text = "[1]"
          /\ CitationLinks[k].anchor = "_Reference_1"
    /\ \A k \in 1..Len(CitationLinks) : CitationLinks[k].text # "[7]"
    /\ Len(ReferenceBookmarks) = 1
    /\ Len(Backlinks) = 1

\* the names of the bookmarks of the document
BookmarkNames == {Bookmarks[b].name : b \in 1..Len(Bookmarks)}

\* C28: in a saved document every anchor a hyperlink or a page-reference field points to
\* (the entries of the table of contents for chapters, headings and special sections,
\* the citation links and the backlinks of the reference entries) is the name of a
\* bookmark made in the same run.
C28_LinkTargetsAreBookmarks ==
    gen_pc = "saved" =>
        /\ \A k \in 1..Len(formatter.doc.toc) : formatter.doc.toc[k] \in BookmarkNames
        /\ \A k \in 1..Len(formatter.doc.links) :
              formatter.doc.links[k].anchor \in BookmarkNames

\* a saved document with a table of contents that lists a chapter, a heading, the
\* references and the acknowledgements, with a citation link and with a backlink
C28_Witness ==
    /\ gen_pc = "saved"
    /\ \E k \in 1..Len(formatter.doc.toc) : formatter.doc.toc[k] = "_Chapter_1"
    /\ \E k \in 1..Len(formatter.doc.toc) : formatter.doc.toc[k] = "_Heading_1_1"
    /\ \E k \in 1..Len(formatter.doc.toc) :
          formatter.doc.toc[k] = SpecialSectionBookmarks.references
    /\ \E k \in 1..Len(formatter.doc.toc) :
          formatter.doc.toc[k] = SpecialSectionBookmarks.acknowledgements
    /\ CitationLinks # <<>>
    /\ Backlinks # <<>>

\* the .docx files of the directory of path
DocxIn(fs, path) ==
    {f.path : f \in {g \in fs : Dirname(g.path) = Dirname(path) /\ EndsWith(g.path, ".docx")}}

\* C30: when generate starts it deletes every .docx file of the directory of output_path
\* and leaves the other files as they are, and when it has saved the document
\* output_path is the only .docx file of that directory.
C30_OnlyOutputLeft ==
    [][/\ (gen_pc = "idle" /\ gen_pc' # "idle") =>
             /\ DocxIn(disk_files', output_path) = {}
             /\ {f \in disk_files' : f.path \notin DocxIn(disk_files, output_path)}
                   = {f \in disk_files : f.path \notin DocxIn(disk_files, output_path)}
       /\ (gen_pc = "save" /\ gen_pc' = "saved") =>
             DocxIn(disk_files', output_path) = {output_path}
      ]_vars

(* ------------------------------------------------------------------ *)
(* Claims about the sanitizer and the numeral converters               *)
(* ------------------------------------------------------------------ *)
\* C16: the reference text sanitizer is idempotent: sanitizing a sanitized text returns
\* it unchanged, so a second generate() over the same tree leaves the entry text as the
\* first one wrote it.
C16_SanitizerIdempotent ==
    (fam = "sanitize" /\ pc = "sanitized_again") => lines[3] = lines[2]

\* a text the first pass has rewritten (the full-width colon replaced and followed by a
\* space, the page range protected, the period added) and the second pass has been
\* applied to
C16_Witness ==
    /\ fam = "sanitize"
    /\ pc = "sanitized_again"
    /\ lines[1] = Cjk.FwColon \o "1-1"
    /\ lines[2] = ": 1" \o WordJoiner \o "-" \o WordJoiner \o "1."
    /\ lines[3] = lines[2]

\* the range the round trip is stated for ("1-99" in the docstring of _arabic_to_chinese)
RoundTripMax == 99

\* C17: for every integer n in 1..99, converting n to CJK numeral text
\* (_arabic_to_chinese) and back (_chinese_to_arabic, of either parser) returns n.
C17_NumeralRoundTrip ==
    (fam = "round_trip" /\ pc = "arabic" /\ i \in 1..RoundTripMax)
        => (current_chapter = i /\ chapter_idx = i)

\* 99 has gone through both conversions, by way of a three-character numeral
C17_Witness ==
    /\ fam = "round_trip"
    /\ pc = "arabic"
    /\ i = RoundTripMax
    /\ line = Cjk.Jiu \o Cjk.Shi \o Cjk.Jiu
    /\ current_chapter = i

\* the numerals of 1..99: a unit, the ten marker, the ten marker and a unit, a unit and
\* the ten marker, or a unit, the ten marker and a unit
WellFormedNumeral(token) ==
    LET Units == CjkNumerals \ {Cjk.Shi}
    IN  \/ token \in CjkNumerals
        \/ Len(token) = 2 /\ Char(token, 1) = Cjk.Shi /\ Char(token, 2) \in Units
        \/ Len(token) = 2 /\ Char(token, 1) \in Units /\ Char(token, 2) = Cjk.Shi
        \/ /\ Len(token) = 3
           /\ Char(token, 1) \in Units
           /\ Char(token, 2) = Cjk.Shi
           /\ Char(token, 3) \in Units

\* C18: _chinese_to_arabic returns 1 for every token that is neither a string of decimal
\* digits nor a well-formed CJK numeral, and never any other value.
C18_UnrecognizedTokenIsOne ==
    (fam = "token" /\ pc = "arabic" /\ ~IsDigitStr(line) /\ ~WellFormedNumeral(line))
        => current_chapter = 1

============================================================================
